---- MODULE Spec2Model ----
(***************************************************************************)
(* kubectl-consolidation: the command (run), the collection pass           *)
(* (Collector.Collect and Collector.CollectPodBlockers), node fetching and *)
(* sorting, utilization arithmetic, blocker classification and the         *)
(* Karpenter labels.  Spec, SpecFrame, SpecPool, SpecPoolFair, SpecFetch  *)
(* and SpecRun are the passes; SpecUtil, SpecPercentage, SpecPodBlocker,   *)
(* SpecNormalize, SpecBlockers, SpecGate, SpecTwice and SpecLabels call    *)
(* one function on its own, on every argument of a finite set (fn, args,   *)
(* out).                                                                   *)
(*                                                                         *)
(* Text that the code inspects character by character (event messages,     *)
(* pod namespaces and names) is a sequence of one-character strings, so    *)
(* that lower-casing, substring search and the two regular expressions are *)
(* computed on the characters.  Text that the code only compares for       *)
(* equality (node names, reasons, label and annotation values) is a        *)
(* string.  A nil slice and an empty slice are both << >> (Go's len is 0   *)
(* for both and the code never tells them apart); a nil map and an empty   *)
(* map are both the function with the empty domain (a look-up in either    *)
(* finds nothing).  A pointer is Nil or Ref(x).                            *)
(*                                                                         *)
(* collector.go holds two versions of the Collector; the model follows the *)
(* later one (lines 144-291), which fetches all pods and all events once   *)
(* and hands collectParallel the two groupings.                            *)
(***************************************************************************)
EXTENDS Integers, Sequences, FiniteSets, TLC

VARIABLES
    op,            \* which entry point this pass runs: "Collect" or "CollectPodBlockers"
    argNames,      \* nodeNames argument
    argSelector,   \* selector argument (NoSelector is "")
    apiNodes,      \* the node objects of the cluster, in the order the API lists them
    apiPods,       \* the pod objects of the cluster
    apiEvents,     \* the events of the cluster
    cancelled,     \* ctx has been cancelled or has timed out
    pc,            \* position of the calling goroutine
    nodes,         \* Collect: nodes returned by FetchNodes
    nodesErr,      \* Collect: err returned by FetchNodes
    podPc,         \* position of the goroutine running FetchAllPods
    evPc,          \* position of the goroutine running FetchAllNodeEvents
    fetchWg,       \* Collect: counter of the WaitGroup joining the two fetches
    podsByNode,    \* grouping returned by FetchAllPods
    podErr,        \* error returned by FetchAllPods
    eventsByNode,  \* grouping returned by FetchAllNodeEvents
    eventErr,      \* error returned by FetchAllNodeEvents
    spawnIdx,      \* collectParallel: next index of the range loop
    wpc,           \* collectParallel: position of each worker goroutine
    sem,           \* collectParallel: tokens held in the semaphore channel
    poolWg,        \* collectParallel: counter of the WaitGroup joining the workers
    results,       \* collectParallel: the pre-allocated result slots
    nodeSet,       \* CollectPodBlockers: requested nodes still to visit
    allBlockers,   \* CollectPodBlockers: accumulated PodBlocker records
    calls,         \* clients created and API operations issued so far, per kind
    ret,           \* returned slice
    retErr,        \* returned error
    fn,            \* the function called on its own ("" during a pass)
    args,          \* the arguments of that call
    out            \* << >> until the call returns, then <<its result>>

vars ==
    << op, argNames, argSelector, apiNodes, apiPods, apiEvents, cancelled, pc,
       nodes, nodesErr, podPc, evPc, fetchWg, podsByNode, podErr, eventsByNode,
       eventErr, spawnIdx, wpc, sem, poolWg, results, nodeSet, allBlockers,
       calls, ret, retErr, fn, args, out >>

----------------------------------------------------------------------------
(* Bounds of the model *)

\* nodes in the cluster of a collection pass
MaxNodes == 3
\* length of the nodeNames argument of a collection pass
MaxNames == 2
\* nodes beyond maxWorkers handed to collectParallel
MaxExtraNodes == 1
\* nodes in the cluster when FetchNodes is checked alone
MaxFetchNodes == 3
\* length of the nodeNames argument when FetchNodes is checked alone
MaxFetchNames == 4
\* pods handed to CalculateUtilization when it is checked alone
MaxUtilPods == 2
\* fragments an event message is put together from
MaxFragments == 2
\* events handed to DetectBlockers when it is checked alone
MaxBlockerEvents == 2
\* the width in bits of the signed machine word: the int64 of the program
\* is 64 bits wide, the model checker's own integers are 32 bits wide, so
\* quantities and the word are scaled down together; a wrap-around happens
\* at 2^(WordBits-1) milli-units as it happens at 2^63 in the program
WordBits == 21

----------------------------------------------------------------------------
(* Program constants *)

maxWorkers == 10

HighUtilizationThreshold == 80

LabelProvisionerName == "karpenter.sh/provisioner-name"
LabelNodePool == "karpenter.sh/nodepool"
LabelCapacityType == "karpenter.sh/capacity-type"

AnnotationDoNotEvict == "karpenter.sh/do-not-evict"
AnnotationDoNotDisrupt == "karpenter.sh/do-not-disrupt"
AnnotationDoNotConsolidate == "karpenter.sh/do-not-consolidate"

APIVersionV1Alpha5 == "v1alpha5"
APIVersionV1Beta1 == "v1beta1"
APIVersionUnknown == "unknown"

BlockerHighUtilization == "high-utilization"
BlockerDoNotEvict == "do-not-evict"
BlockerDoNotDisrupt == "do-not-disrupt"
BlockerDoNotConsolidate == "do-not-consolidate"
BlockerPDBViolation == "pdb-violation"
BlockerNonReplicated == "non-replicated"
BlockerWouldIncreaseCost == "would-increase-cost"
BlockerInUseSecurityGroup == "in-use-security-group"
BlockerOnDemandProtection == "on-demand-protection"
BlockerLocalStorage == "local-storage"

\* the empty BlockerType
NoBlocker == ""

\* error values: nil, the API errors of the three list operations, ctx.Err()
NoErr == "nil"
ErrNodeList == "node list failed"
ErrPodList == "pod list failed"
ErrEventList == "event list failed"
ErrCtx == "context canceled"

\* errors of run: the validation error, a kubeconfig that cannot be loaded,
\* a write of the printer that fails
ErrPodsNeedNodes == "--pods flag requires at least one node name"
ErrConfig == "invalid configuration"
ErrWrite == "write failed"

PodSucceeded == "Succeeded"
PodFailed == "Failed"

NoSelector == ""

----------------------------------------------------------------------------
(* Go maps and slices *)

\* m[k] of a Go map with string values: the zero value when k is absent
MapGet(m, k) == IF k \in DOMAIN m THEN m[k] ELSE ""

\* m[k] of a Go map with slice values
MapGetSlice(m, k) == IF k \in DOMAIN m THEN m[k] ELSE << >>

Range(s) == {s[i] : i \in 1..Len(s)}

\* a pointer is nil or refers to one value: &x is Ref(x), *p is p[1]
Nil == << >>

Ref(x) == <<x>>

\* the elements of s at the positions in keep, from position i on, in order
\* (a loop that appends the elements it keeps)
RECURSIVE AppendKept(_, _, _)
AppendKept(s, keep, i) ==
    IF i > Len(s) THEN << >>
    ELSE IF i \in keep THEN <<s[i]>> \o AppendKept(s, keep, i + 1)
    ELSE AppendKept(s, keep, i + 1)

\* every way to write the finite set S as a sequence without repetition
Orders(S) ==
    {s \in [1..Cardinality(S) -> S] : \A i, j \in 1..Cardinality(S) : i # j => s[i] # s[j]}

----------------------------------------------------------------------------
(* strings.ToLower, strings.Contains and the regular expressions *)

LowerChar(c) ==
    CASE c = "A" -> "a"
      [] c = "B" -> "b"
      [] c = "C" -> "c"
      [] c = "D" -> "d"
      [] c = "E" -> "e"
      [] c = "F" -> "f"
      [] c = "G" -> "g"
      [] c = "H" -> "h"
      [] c = "I" -> "i"
      [] c = "J" -> "j"
      [] c = "K" -> "k"
      [] c = "L" -> "l"
      [] c = "M" -> "m"
      [] c = "N" -> "n"
      [] c = "O" -> "o"
      [] c = "P" -> "p"
      [] c = "Q" -> "q"
      [] c = "R" -> "r"
      [] c = "S" -> "s"
      [] c = "T" -> "t"
      [] c = "U" -> "u"
      [] c = "V" -> "v"
      [] c = "W" -> "w"
      [] c = "X" -> "x"
      [] c = "Y" -> "y"
      [] c = "Z" -> "z"
      [] OTHER -> c

ToLower(s) == [i \in 1..Len(s) |-> LowerChar(s[i])]

\* p occurs in s starting at position i
IsSubAt(s, p, i) ==
    /\ i >= 1
    /\ i + Len(p) - 1 <= Len(s)
    /\ \A k \in 1..Len(p) : s[i + k - 1] = p[k]

Contains(s, p) == \E i \in 1..Len(s) : IsSubAt(s, p, i)

PatPdb == <<"p", "d", "b">>
PatPrevent == <<"p", "r", "e", "v", "e", "n", "t">>
PatLocalStorage == <<"l", "o", "c", "a", "l", " ", "s", "t", "o", "r", "a", "g", "e">>
PatNonReplicated == <<"n", "o", "n", "-", "r", "e", "p", "l", "i", "c", "a", "t", "e", "d">>
PatWouldIncreaseCost ==
    <<"w", "o", "u", "l", "d", " ", "i", "n", "c", "r", "e", "a", "s", "e", " ", "c", "o", "s", "t">>
PatInUseSecurityGroup ==
    <<"i", "n", "-", "u", "s", "e", " ", "s", "e", "c", "u", "r", "i", "t", "y", " ", "g", "r", "o", "u", "p">>
PatOnDemand == <<"o", "n", "-", "d", "e", "m", "a", "n", "d">>
PatDoNotConsolidate ==
    <<"d", "o", "-", "n", "o", "t", "-", "c", "o", "n", "s", "o", "l", "i", "d", "a", "t", "e">>
PatDoNotDisrupt == <<"d", "o", "-", "n", "o", "t", "-", "d", "i", "s", "r", "u", "p", "t">>
PatDoNotEvict == <<"d", "o", "-", "n", "o", "t", "-", "e", "v", "i", "c", "t">>
SubConsolidat == <<"c", "o", "n", "s", "o", "l", "i", "d", "a", "t">>
SubDeprovision == <<"d", "e", "p", "r", "o", "v", "i", "s", "i", "o", "n">>
SubDisrupt == <<"d", "i", "s", "r", "u", "p", "t">>
PodQuotePrefix == <<"P", "o", "d", " ", "\"">>

\* the regular expression pdb.*prevent ('.' does not match a newline)
MatchPdbPrevent(s) ==
    \E i \in 1..Len(s) : \E j \in 1..Len(s) :
        /\ IsSubAt(s, PatPdb, i)
        /\ j >= i + Len(PatPdb)
        /\ IsSubAt(s, PatPrevent, j)
        /\ \A k \in (i + Len(PatPdb))..(j - 1) : s[k] # "\n"

\* blockerPatterns, in table order: <<matches(lower), blocker>>
blockerPatterns(lower) ==
    << <<MatchPdbPrevent(lower), BlockerPDBViolation>>,
       <<Contains(lower, PatLocalStorage), BlockerLocalStorage>>,
       <<Contains(lower, PatNonReplicated), BlockerNonReplicated>>,
       <<Contains(lower, PatWouldIncreaseCost), BlockerWouldIncreaseCost>>,
       <<Contains(lower, PatInUseSecurityGroup), BlockerInUseSecurityGroup>>,
       <<Contains(lower, PatOnDemand), BlockerOnDemandProtection>>,
       <<Contains(lower, PatDoNotConsolidate), BlockerDoNotConsolidate>>,
       <<Contains(lower, PatDoNotDisrupt), BlockerDoNotDisrupt>>,
       <<Contains(lower, PatDoNotEvict), BlockerDoNotEvict>> >>

\* the blocker of the last pattern of the table that matches
NormalizeEventMessageLastMatch(message) ==
    IF message = << >> THEN NoBlocker
    ELSE LET table == blockerPatterns(ToLower(message))
             hits == {i \in 1..Len(table) : table[i][1]}
         IN IF hits = {} THEN NoBlocker
            ELSE table[CHOOSE i \in hits : \A j \in hits : i >= j][2]

NormalizeEventMessage(message) ==
    IF message = << >> THEN NoBlocker
    ELSE LET table == blockerPatterns(ToLower(message))
             hits == {i \in 1..Len(table) : table[i][1]}
         IN IF hits = {} THEN NoBlocker
            ELSE table[CHOOSE i \in hits : \A j \in hits : i <= j][2]

\* every event taken for consolidation-related
isConsolidationEventAny(event) == TRUE

isConsolidationEvent(event) ==
    LET message == ToLower(event.Message)
    IN \/ event.Reason = "CannotConsolidate"
       \/ event.Reason = "DeprovisioningBlocked"
       \/ event.Reason = "DisruptionBlocked"
       \/ Contains(message, SubConsolidat)
       \/ Contains(message, SubDeprovision)
       \/ Contains(message, SubDisrupt)

\* podNameRegex Pod "([^"]+)" : the capture of the leftmost match, or empty
extractPodFromMessage(message) ==
    LET n == Len(PodQuotePrefix)
        starts == {i \in 1..Len(message) :
                      /\ IsSubAt(message, PodQuotePrefix, i)
                      /\ i + n <= Len(message)
                      /\ message[i + n] # "\""
                      /\ \E j \in (i + n + 1)..Len(message) : message[j] = "\""}
    IN IF starts = {} THEN << >>
       ELSE LET i == CHOOSE x \in starts : \A y \in starts : x <= y
                closes == {j \in (i + n + 1)..Len(message) : message[j] = "\""}
                j == CHOOSE x \in closes : \A y \in closes : x <= y
            IN SubSeq(message, i + n, j - 1)

----------------------------------------------------------------------------
(* Utilization.  A resource.Quantity is its exact amount in milli-units:    *)
(* 2 CPUs are 2000, 500m is 500, 8 bytes of memory are 8000.                *)

MilliValue(q) == q

IsZero(q) == q = 0

\* ResourceList.Cpu() and ResourceList.Memory(): the zero Quantity when absent
Quantity(list, resource) == IF resource \in DOMAIN list THEN list[resource] ELSE 0

\* the percentage capped at 100
calculatePercentageClamped(used, total) ==
    IF IsZero(total) THEN 0
    ELSE LET pct == (MilliValue(used) * 100) \div MilliValue(total)
         IN IF pct > 100 THEN 100 ELSE pct

\* the largest and the smallest value of the signed machine word
MaxInt64 == 2 ^ (WordBits - 1) - 1
MinInt64 == -(2 ^ (WordBits - 1))

\* the value a signed machine word holds after an operation whose exact
\* result is x: two's complement wrap-around
Int64(x) == ((x - MinInt64) % (2 ^ WordBits)) + MinInt64

\* integer division of Go, which truncates toward zero
Quo(a, b) ==
    LET abs(x) == IF x < 0 THEN -x ELSE x
        q == abs(a) \div abs(b)
    IN IF (a < 0) = (b < 0) THEN q ELSE -q

calculatePercentage(used, total) ==
    IF IsZero(total) THEN 0
    ELSE LET usedValue == MilliValue(used)
             totalValue == MilliValue(total)
         IN IF totalValue = 0 THEN 0 ELSE Quo(Int64(usedValue * 100), totalValue)

\* the requests for one resource declared by a list of containers, added up
RECURSIVE SumRequests(_, _, _)
SumRequests(containers, resource, i) ==
    IF i > Len(containers) THEN 0
    ELSE Quantity(containers[i], resource) + SumRequests(containers, resource, i + 1)

\* only completed pods skipped
IsTerminalPhaseSucceededOnly(pod) == pod.Phase = PodSucceeded

IsTerminalPhase(pod) == pod.Phase = PodSucceeded \/ pod.Phase = PodFailed

\* what the loop over pods adds to the total of one resource
RECURSIVE TotalRequests(_, _, _)
TotalRequests(pods, resource, i) ==
    IF i > Len(pods) THEN 0
    ELSE (IF IsTerminalPhase(pods[i]) THEN 0
          ELSE SumRequests(pods[i].Containers, resource, 1)
               + SumRequests(pods[i].InitContainers, resource, 1))
         + TotalRequests(pods, resource, i + 1)

\* the early return taken for a zero allocatable CPU only
CalculateUtilizationCpuOnly(node, pods) ==
    LET allocatableCPU == Quantity(node.Allocatable, "cpu")
        allocatableMem == Quantity(node.Allocatable, "memory")
    IN IF DOMAIN node.Allocatable = {} THEN <<0, 0>>
       ELSE IF IsZero(allocatableCPU) THEN <<0, 0>>
       ELSE << calculatePercentage(TotalRequests(pods, "cpu", 1), allocatableCPU),
               calculatePercentage(TotalRequests(pods, "memory", 1), allocatableMem) >>

\* <<cpuPercent, memPercent>>
CalculateUtilization(node, pods) ==
    LET allocatableCPU == Quantity(node.Allocatable, "cpu")
        allocatableMem == Quantity(node.Allocatable, "memory")
    IN IF DOMAIN node.Allocatable = {} THEN <<0, 0>>
       ELSE IF IsZero(allocatableCPU) \/ IsZero(allocatableMem) THEN <<0, 0>>
       ELSE << calculatePercentage(TotalRequests(pods, "cpu", 1), allocatableCPU),
               calculatePercentage(TotalRequests(pods, "memory", 1), allocatableMem) >>

----------------------------------------------------------------------------
(* Blocker classification *)

\* the annotations tried in the order do-not-disrupt, do-not-evict,
\* do-not-consolidate
DetectPodBlockerDisruptFirst(pod) ==
    IF pod = Nil \/ DOMAIN pod[1].Annotations = {} THEN <<NoBlocker, FALSE>>
    ELSE IF MapGet(pod[1].Annotations, AnnotationDoNotDisrupt) = "true"
         THEN <<BlockerDoNotDisrupt, TRUE>>
    ELSE IF MapGet(pod[1].Annotations, AnnotationDoNotEvict) = "true"
         THEN <<BlockerDoNotEvict, TRUE>>
    ELSE IF MapGet(pod[1].Annotations, AnnotationDoNotConsolidate) = "true"
         THEN <<BlockerDoNotConsolidate, TRUE>>
    ELSE <<NoBlocker, FALSE>>

\* <<blocker, found>> for the pod pointer pod
DetectPodBlocker(pod) ==
    IF pod = Nil \/ DOMAIN pod[1].Annotations = {} THEN <<NoBlocker, FALSE>>
    ELSE IF MapGet(pod[1].Annotations, AnnotationDoNotEvict) = "true"
         THEN <<BlockerDoNotEvict, TRUE>>
    ELSE IF MapGet(pod[1].Annotations, AnnotationDoNotDisrupt) = "true"
         THEN <<BlockerDoNotDisrupt, TRUE>>
    ELSE IF MapGet(pod[1].Annotations, AnnotationDoNotConsolidate) = "true"
         THEN <<BlockerDoNotConsolidate, TRUE>>
    ELSE <<NoBlocker, FALSE>>

\* the event loop without the look-up of the quoted pod
EventBlockerNoGuard(event, existingPodNames) ==
    IF ~isConsolidationEvent(event) THEN NoBlocker
    ELSE NormalizeEventMessage(event.Message)

\* the blocker an event adds to blockerSet, NoBlocker when it adds none
EventBlocker(event, existingPodNames) ==
    IF ~isConsolidationEvent(event) THEN NoBlocker
    ELSE LET podName == extractPodFromMessage(event.Message)
         IN IF podName # << >> /\ podName \notin existingPodNames THEN NoBlocker
            ELSE NormalizeEventMessage(event.Message)

\* the utilization check with > in place of >=
IsHighUtilizationStrict(cpuUtil, memUtil) ==
    cpuUtil > HighUtilizationThreshold \/ memUtil > HighUtilizationThreshold

\* the utilization check of DetectBlockers
IsHighUtilization(cpuUtil, memUtil) ==
    cpuUtil >= HighUtilizationThreshold \/ memUtil >= HighUtilizationThreshold

\* the keys of blockerSet when the three loops of DetectBlockers are done
blockerSet(pods, events, cpuUtil, memUtil, existingPodNames) ==
    (IF IsHighUtilization(cpuUtil, memUtil) THEN {BlockerHighUtilization} ELSE {})
    \cup {DetectPodBlocker(Ref(pods[i]))[1] :
             i \in {k \in 1..Len(pods) : DetectPodBlocker(Ref(pods[k]))[2]}}
    \cup ({EventBlocker(events[i], existingPodNames) : i \in 1..Len(events)} \ {NoBlocker})

\* a slice to which the finding for every pod and every event is appended
DetectBlockersAppended(pods, events, cpuUtil, memUtil, existingPodNames) ==
    {(IF IsHighUtilization(cpuUtil, memUtil) THEN <<BlockerHighUtilization>> ELSE << >>)
     \o [i \in 1..Len(pods) |-> DetectPodBlocker(Ref(pods[i]))[1]]
     \o [i \in 1..Len(events) |-> EventBlocker(events[i], existingPodNames)]}

\* only the blocker the map iteration reaches first is returned
DetectBlockersFirstFound(pods, events, cpuUtil, memUtil, existingPodNames) ==
    LET found == blockerSet(pods, events, cpuUtil, memUtil, existingPodNames)
    IN IF found = {} THEN {<< >>} ELSE {<<blocker>> : blocker \in found}

\* the slices DetectBlockers can return: blockerSet in any order (map iteration)
DetectBlockers(pods, events, cpuUtil, memUtil, existingPodNames) ==
    Orders(blockerSet(pods, events, cpuUtil, memUtil, existingPodNames))

\* the set of "namespace/name" keys
BuildPodNameSet(pods) ==
    {pods[i].Namespace \o <<"/">> \o pods[i].Name : i \in 1..Len(pods)}

\* PodBlocker records of the pods with a blocking annotation, in pod order
\* (Age is formatted from the wall clock and is not modelled)
RECURSIVE FindBlockingPodsFrom(_, _, _)
FindBlockingPodsFrom(pods, nodeName, i) ==
    IF i > Len(pods) THEN << >>
    ELSE (IF DetectPodBlocker(Ref(pods[i]))[2]
          THEN << [NodeName |-> nodeName, Namespace |-> pods[i].Namespace,
                   PodName |-> pods[i].Name, Reason |-> DetectPodBlocker(Ref(pods[i]))[1]] >>
          ELSE << >>)
         \o FindBlockingPodsFrom(pods, nodeName, i + 1)

\* a record appended for every pod, whether DetectPodBlocker found a blocker
\* or not
FindBlockingPodsAll(pods, nodeName) ==
    [i \in 1..Len(pods) |->
        [NodeName |-> nodeName, Namespace |-> pods[i].Namespace, PodName |-> pods[i].Name,
         Reason |-> DetectPodBlocker(Ref(pods[i]))[1]]]

FindBlockingPods(pods, nodeName) == FindBlockingPodsFrom(pods, nodeName, 1)

----------------------------------------------------------------------------
(* Karpenter labels *)

DetectNodeVersion(node) ==
    IF node = Nil \/ DOMAIN node[1].Labels = {} THEN APIVersionUnknown
    ELSE IF LabelNodePool \in DOMAIN node[1].Labels THEN APIVersionV1Beta1
    ELSE IF LabelProvisionerName \in DOMAIN node[1].Labels THEN APIVersionV1Alpha5
    ELSE APIVersionUnknown

\* the legacy label looked up first
GetPoolNameLegacyFirst(node) ==
    IF node = Nil \/ DOMAIN node[1].Labels = {} THEN <<"", APIVersionUnknown>>
    ELSE IF LabelProvisionerName \in DOMAIN node[1].Labels
         THEN <<node[1].Labels[LabelProvisionerName], APIVersionV1Alpha5>>
    ELSE IF LabelNodePool \in DOMAIN node[1].Labels
         THEN <<node[1].Labels[LabelNodePool], APIVersionV1Beta1>>
    ELSE <<"", APIVersionUnknown>>

\* <<name, version>> for the node pointer node
GetPoolName(node) ==
    IF node = Nil \/ DOMAIN node[1].Labels = {} THEN <<"", APIVersionUnknown>>
    ELSE IF LabelNodePool \in DOMAIN node[1].Labels
         THEN <<node[1].Labels[LabelNodePool], APIVersionV1Beta1>>
    ELSE IF LabelProvisionerName \in DOMAIN node[1].Labels
         THEN <<node[1].Labels[LabelProvisionerName], APIVersionV1Alpha5>>
    ELSE <<"", APIVersionUnknown>>

GetCapacityType(node) ==
    IF node = Nil \/ DOMAIN node[1].Labels = {} THEN ""
    ELSE MapGet(node[1].Labels, LabelCapacityType)

----------------------------------------------------------------------------
(* The Resource Source: list operations of the API client *)

SelectorSpot == "karpenter.sh/capacity-type=spot"

\* the equality requirement <<key, value>> a label selector states
SelectorTerm(selector) ==
    CASE selector = SelectorSpot -> <<LabelCapacityType, "spot">>

SelectorMatches(labels, selector) ==
    \/ selector = NoSelector
    \/ /\ selector # NoSelector
       /\ SelectorTerm(selector)[1] \in DOMAIN labels
       /\ labels[SelectorTerm(selector)[1]] = SelectorTerm(selector)[2]

\* Nodes().List(ctx, listOpts): the items, in API order
ListNodes(items, selector) ==
    AppendKept(items, {i \in 1..Len(items) : SelectorMatches(items[i].Labels, selector)}, 1)

\* Events("").List with FieldSelector involvedObject.kind=Node
ListNodeEvents(items) ==
    AppendKept(items, {i \in 1..Len(items) : items[i].InvolvedObject.Kind = "Node"}, 1)

\* the errors a List call made with ctx can return: the client gives up a
\* request whose context is done, otherwise the call succeeds or the API fails
ListErrors(ctxDone, apiErr) == IF ctxDone THEN {ErrCtx} ELSE {NoErr, apiErr}

----------------------------------------------------------------------------
(* FetchNodes, FetchAllPods, FetchAllNodeEvents *)

FetchNodesErrors(ctxDone) == ListErrors(ctxDone, ErrNodeList)

\* FetchAllPods listing with a context of its own instead of ctx
FetchAllPodsErrorsNoCtx(ctxDone) == ListErrors(FALSE, ErrPodList)

FetchAllPodsErrors(ctxDone) == ListErrors(ctxDone, ErrPodList)

FetchAllNodeEventsErrors(ctxDone) == ListErrors(ctxDone, ErrEventList)

\* the filter applied only from the second name on
FilterByNamesOffByOne(listed, nodeNames) ==
    IF Len(nodeNames) > 1
    THEN LET nameSet == Range(nodeNames)
         IN AppendKept(listed, {i \in 1..Len(listed) : listed[i].Name \in nameSet}, 1)
    ELSE listed

\* the filter by nodeNames
FilterByNames(listed, nodeNames) ==
    IF Len(nodeNames) > 0
    THEN LET nameSet == Range(nodeNames)
         IN AppendKept(listed, {i \in 1..Len(listed) : listed[i].Name \in nameSet}, 1)
    ELSE listed

\* a less function that sorts the youngest node first
BeforeReversed(a, b) == a.CreationTimestamp > b.CreationTimestamp

\* the less function handed to sort.Slice
Before(a, b) == a.CreationTimestamp < b.CreationTimestamp

\* sort.Slice is not stable: any rearrangement that less does not contradict
SortSlice(s) ==
    {[i \in 1..Len(s) |-> s[p[i]]] : p \in
        {q \in Orders(1..Len(s)) :
            \A i, j \in 1..Len(s) : i < j => ~Before(s[q[j]], s[q[i]])}}

\* the node slices FetchNodes can return when the list call succeeds
FetchNodes(listed, nodeNames) == SortSlice(FilterByNames(listed, nodeNames))

\* podsByNode: pods with a node assignment, grouped by it, in list order
\* every listed pod put under every node name
FetchAllPodsUngrouped(items) ==
    [n \in {items[i].NodeName : i \in 1..Len(items)} \ {""} |-> items]

FetchAllPods(items) ==
    [n \in {items[i].NodeName : i \in 1..Len(items)} \ {""} |->
        AppendKept(items, {i \in 1..Len(items) : items[i].NodeName = n}, 1)]

\* eventsByNode: the listed events grouped by involved object name
FetchAllNodeEvents(items) ==
    LET listed == ListNodeEvents(items)
    IN [n \in {listed[i].InvolvedObject.Name : i \in 1..Len(listed)} |->
           AppendKept(listed, {i \in 1..Len(listed) : listed[i].InvolvedObject.Name = n}, 1)]

----------------------------------------------------------------------------
(* collectNodeInfo *)

\* the zero NodeInfo of a freshly made results slice (Node 0 is the nil pointer)
ZeroNodeInfo ==
    [Node |-> 0, PoolName |-> "", PoolVersion |-> "", CapacityType |-> "",
     CPUUtilization |-> 0, MemoryUtilization |-> 0, Blockers |-> << >>]

\* the NodeInfo values collectNodeInfo can return for &nodes[idx]
collectNodeInfo(idx, node, pods, events) ==
    LET util == CalculateUtilization(node, pods)
        podNameSet == BuildPodNameSet(pods)
    IN {[Node |-> idx,
         PoolName |-> GetPoolName(Ref(node))[1],
         PoolVersion |-> GetPoolName(Ref(node))[2],
         CapacityType |-> GetCapacityType(Ref(node)),
         CPUUtilization |-> util[1],
         MemoryUtilization |-> util[2],
         Blockers |-> b] : b \in DetectBlockers(pods, events, util[1], util[2], podNameSet)}

----------------------------------------------------------------------------
(* The clusters and arguments the passes are run on *)

NodeNameTable ==
    <<"n1", "n2", "n3", "n4", "n5", "n6", "n7", "n8", "n9", "n10", "n11", "n12",
      "n13", "n14", "n15", "n16">>

\* n1 is younger than n2; n2 and n3 were created at the same time
NodeAt(i) ==
    [Name |-> NodeNameTable[i],
     CreationTimestamp |-> CASE i = 1 -> 2 [] i = 2 -> 1 [] i = 3 -> 1 [] OTHER -> (7 * i) % 4,
     Labels |->
        CASE i = 1 -> (LabelNodePool :> "np") @@ (LabelCapacityType :> "spot")
          [] i = 2 -> (LabelProvisionerName :> "prov") @@ (LabelCapacityType :> "on-demand")
          [] i = 3 -> (LabelNodePool :> "np") @@ (LabelProvisionerName :> "prov")
                      @@ (LabelCapacityType :> "spot")
          [] OTHER -> << >>,
     Allocatable |->
        CASE i = 1 -> ("cpu" :> 4000) @@ ("memory" :> 8000)
          [] i = 2 -> ("cpu" :> 2000) @@ ("memory" :> 4000)
          [] i = 3 -> << >>
          [] OTHER -> ("cpu" :> 1000) @@ ("memory" :> 1000)]

\* d/a on n1 asks for 90% of its CPU; d/b on n1 has completed; k/c is on n2;
\* d/u is not scheduled
ClusterPods ==
    << [Namespace |-> <<"d">>, Name |-> <<"a">>, NodeName |-> "n1", Phase |-> "Running",
        Annotations |-> (AnnotationDoNotEvict :> "true"),
        Containers |-> << ("cpu" :> 3600) @@ ("memory" :> 2000) >>,
        InitContainers |-> << >>],
       [Namespace |-> <<"d">>, Name |-> <<"b">>, NodeName |-> "n1", Phase |-> PodSucceeded,
        Annotations |-> << >>,
        Containers |-> << ("cpu" :> 4000) >>,
        InitContainers |-> << >>],
       [Namespace |-> <<"k">>, Name |-> <<"c">>, NodeName |-> "n2", Phase |-> "Running",
        Annotations |-> (AnnotationDoNotDisrupt :> "true") @@ (AnnotationDoNotConsolidate :> "true"),
        Containers |-> << ("cpu" :> 500) @@ ("memory" :> 1000) >>,
        InitContainers |-> << ("cpu" :> 500) >>],
       [Namespace |-> <<"d">>, Name |-> <<"u">>, NodeName |-> "", Phase |-> "Pending",
        Annotations |-> (AnnotationDoNotEvict :> "true"),
        Containers |-> << ("cpu" :> 100) >>,
        InitContainers |-> << >>] >>

\* Pod "d/a" has local storage
MsgLocalStorageLive ==
    <<"P", "o", "d", " ", "\"", "d", "/", "a", "\"", " ", "h", "a", "s", " ", "l", "o", "c", "a", "l", " ", "s", "t", "o", "r", "a", "g", "e">>
\* Cannot disrupt: Pod "d/gone" is non-replicated
MsgStaleNonReplicated ==
    <<"C", "a", "n", "n", "o", "t", " ", "d", "i", "s", "r", "u", "p", "t", ":", " ", "P", "o", "d", " ", "\"", "d", "/", "g", "o", "n", "e", "\"", " ", "i", "s", " ", "n", "o", "n", "-", "r", "e", "p", "l", "i", "c", "a", "t", "e", "d">>
\* PDB prevents consolidation
MsgPdb ==
    <<"P", "D", "B", " ", "p", "r", "e", "v", "e", "n", "t", "s", " ", "c", "o", "n", "s", "o", "l", "i", "d", "a", "t", "i", "o", "n">>
\* on-demand node started
MsgUnrelatedOnDemand ==
    <<"o", "n", "-", "d", "e", "m", "a", "n", "d", " ", "n", "o", "d", "e", " ", "s", "t", "a", "r", "t", "e", "d">>

ClusterEvents ==
    << [InvolvedObject |-> [Kind |-> "Node", Name |-> "n1"],
        Reason |-> "CannotConsolidate", Message |-> MsgLocalStorageLive],
       [InvolvedObject |-> [Kind |-> "Node", Name |-> "n1"],
        Reason |-> "Unconsolidatable", Message |-> MsgStaleNonReplicated],
       [InvolvedObject |-> [Kind |-> "Node", Name |-> "n2"],
        Reason |-> "Unconsolidatable", Message |-> MsgPdb],
       [InvolvedObject |-> [Kind |-> "Node", Name |-> "n2"],
        Reason |-> "Started", Message |-> MsgUnrelatedOnDemand],
       [InvolvedObject |-> [Kind |-> "Pod", Name |-> "n1"],
        Reason |-> "DisruptionBlocked", Message |-> MsgUnrelatedOnDemand] >>

Selectors == {NoSelector, SelectorSpot}

\* sequences over S of length at most n
SeqsUpTo(S, n) == UNION {[1..k -> S] : k \in 0..n}

\* the first k nodes, as the API lists them
FirstNodes(k) == [i \in 1..k |-> NodeAt(i)]

----------------------------------------------------------------------------
(* Decisions of Collect and collectParallel *)

EmptyMap == << >>

\* Collect without the check of FetchNodes' error
AfterFetchNodesNoErrCheck(err, fetched) ==
    IF Len(fetched) = 0 THEN "return_empty" ELSE "fetch"

\* Collect without the check for zero nodes
AfterFetchNodesNoEmptyCheck(err, fetched) ==
    IF err # NoErr THEN "return_err" ELSE "fetch"

\* what Collect does with the result of FetchNodes
AfterFetchNodes(err, fetched) ==
    IF err # NoErr THEN "return_err"
    ELSE IF Len(fetched) = 0 THEN "return_empty"
    ELSE "fetch"

\* a wait that returns while one goroutine is still running
WaitDoneEarly(counter) == counter <= 1

\* Collect going on without waiting for its fetch tasks
WaitDoneUnawaited(counter) == TRUE

\* wg.Wait() returns
WaitDone(counter) == counter = 0

\* Collect treating a failed event fetch as fatal too
FetchFailureEventFatal(pErr, eErr) == IF pErr # NoErr THEN pErr ELSE eErr

\* Collect without the check of podErr
FetchFailureUnchecked(pErr, eErr) == NoErr

\* the error Collect returns after joining the two fetches, NoErr to go on
FetchFailure(pErr, eErr) == IF pErr # NoErr THEN pErr ELSE NoErr

\* the event grouping handed to collectParallel
EventsOrEmpty(eErr, byNode) == IF eErr # NoErr THEN EmptyMap ELSE byNode

\* a semaphore channel with one slot too many
CanAcquireOffByOne(held) == held <= maxWorkers

\* sem <- struct{}{} can proceed
CanAcquire(held) == held < maxWorkers

\* results filled in the order the workers finish
WriteResultAppend(slots, idx, info, written) == [slots EXCEPT ![written + 1] = info]

\* every worker writing the first slot
WriteResultFirstSlot(slots, idx, info, written) == [slots EXCEPT ![1] = info]

\* results[idx] = info; written is the number of slots written before
WriteResult(slots, idx, info, written) == [slots EXCEPT ![idx] = info]

\* workers that hold a semaphore token
\* a worker that keeps its token when it finishes
ReleaseKeepsToken(held) == held

\* defer func() { <-sem }(): the finishing worker takes its token back out
Release(held) == held - 1

Holding == {i \in DOMAIN wpc : wpc[i] = "work"}

WorkersDone == {i \in DOMAIN wpc : wpc[i] = "done"}

----------------------------------------------------------------------------
(* State machine *)

\* no function is called on its own
NoCall ==
    /\ fn = ""
    /\ args = << >>
    /\ out = << >>

\* everything a pass has not touched yet
Fresh ==
    /\ cancelled = FALSE
    /\ nodes = << >>
    /\ nodesErr = NoErr
    /\ podPc = "idle"
    /\ evPc = "idle"
    /\ fetchWg = 0
    /\ podsByNode = EmptyMap
    /\ podErr = NoErr
    /\ eventsByNode = EmptyMap
    /\ eventErr = NoErr
    /\ spawnIdx = 0
    /\ wpc = << >>
    /\ sem = 0
    /\ poolWg = 0
    /\ results = << >>
    /\ nodeSet = {}
    /\ allBlockers = << >>
    /\ calls = [clients |-> 0, discovery |-> 0, nodes |-> 0, pods |-> 0, events |-> 0]
    /\ ret = << >>
    /\ retErr = NoErr

Init ==
    /\ op \in {"Collect", "CollectPodBlockers"}
    /\ argNames \in SeqsUpTo({"n1", "n2", "ghost"}, MaxNames)
    /\ argSelector \in Selectors
    /\ apiNodes \in {FirstNodes(k) : k \in 0..MaxNodes}
    /\ apiPods = ClusterPods
    /\ apiEvents = ClusterEvents
    /\ pc = "start"
    /\ Fresh
    /\ NoCall

\* the context is cancelled or its deadline passes
Cancel ==
    /\ ~cancelled
    /\ pc # "done"
    /\ cancelled' = TRUE
    /\ UNCHANGED << fn, args, out,
                    op, argNames, argSelector, apiNodes, apiPods, apiEvents, pc, nodes,
                    nodesErr, podPc, evPc, fetchWg, podsByNode, podErr, eventsByNode,
                    eventErr, spawnIdx, wpc, sem, poolWg, results, nodeSet, allBlockers,
                    calls, ret, retErr >>

\* Collect calls FetchNodes, which issues the node list
CollectCallFetchNodes ==
    /\ op = "Collect"
    /\ pc = "start"
    /\ pc' = "fetch_nodes"
    /\ calls' = [calls EXCEPT !.nodes = @ + 1]
    /\ UNCHANGED << fn, args, out,
                    op, argNames, argSelector, apiNodes, apiPods, apiEvents, cancelled,
                    nodes, nodesErr, podPc, evPc, fetchWg, podsByNode, podErr,
                    eventsByNode, eventErr, spawnIdx, wpc, sem, poolWg, results, nodeSet,
                    allBlockers, ret, retErr >>

\* FetchNodes returns; Collect returns or starts the two fetch goroutines
CollectFetchNodesReturn ==
    /\ pc = "fetch_nodes"
    /\ \E err \in FetchNodesErrors(cancelled) :
       \E fetched \in (IF err = NoErr
                       THEN FetchNodes(ListNodes(apiNodes, argSelector), argNames)
                       ELSE {<< >>}) :
          /\ nodesErr' = err
          /\ nodes' = fetched
          /\ LET next == AfterFetchNodes(err, fetched)
             IN /\ pc' = IF next = "fetch" THEN "wait_fetch" ELSE "done"
                /\ retErr' = IF next = "return_err" THEN err ELSE NoErr
                /\ fetchWg' = IF next = "fetch" THEN 2 ELSE fetchWg
                /\ podPc' = IF next = "fetch" THEN "start" ELSE podPc
                /\ evPc' = IF next = "fetch" THEN "start" ELSE evPc
    /\ ret' = << >>
    /\ UNCHANGED << fn, args, out,
                    op, argNames, argSelector, apiNodes, apiPods, apiEvents, cancelled,
                    podsByNode, podErr, eventsByNode, eventErr, spawnIdx, wpc, sem,
                    poolWg, results, nodeSet, allBlockers, calls >>

\* the first goroutine issues the pod list
PodFetchCall ==
    /\ podPc = "start"
    /\ podPc' = "listing"
    /\ calls' = [calls EXCEPT !.pods = @ + 1]
    /\ UNCHANGED << fn, args, out,
                    op, argNames, argSelector, apiNodes, apiPods, apiEvents, cancelled, pc,
                    nodes, nodesErr, evPc, fetchWg, podsByNode, podErr, eventsByNode,
                    eventErr, spawnIdx, wpc, sem, poolWg, results, nodeSet, allBlockers,
                    ret, retErr >>

\* FetchAllPods returns in the first goroutine, which then calls wg.Done
PodFetchReturn ==
    /\ podPc = "listing"
    /\ \E err \in FetchAllPodsErrors(cancelled) :
          /\ podErr' = err
          /\ podsByNode' = IF err = NoErr THEN FetchAllPods(apiPods) ELSE EmptyMap
    /\ podPc' = "done"
    /\ fetchWg' = fetchWg - 1
    /\ UNCHANGED << fn, args, out,
                    op, argNames, argSelector, apiNodes, apiPods, apiEvents, cancelled, pc,
                    nodes, nodesErr, evPc, eventsByNode, eventErr, spawnIdx, wpc, sem,
                    poolWg, results, nodeSet, allBlockers, calls, ret, retErr >>

\* the second goroutine issues the event list
EventFetchCall ==
    /\ evPc = "start"
    /\ evPc' = "listing"
    /\ calls' = [calls EXCEPT !.events = @ + 1]
    /\ UNCHANGED << fn, args, out,
                    op, argNames, argSelector, apiNodes, apiPods, apiEvents, cancelled, pc,
                    nodes, nodesErr, podPc, fetchWg, podsByNode, podErr, eventsByNode,
                    eventErr, spawnIdx, wpc, sem, poolWg, results, nodeSet, allBlockers,
                    ret, retErr >>

\* FetchAllNodeEvents returns in the second goroutine, which then calls wg.Done
EventFetchReturn ==
    /\ evPc = "listing"
    /\ \E err \in FetchAllNodeEventsErrors(cancelled) :
          /\ eventErr' = err
          /\ eventsByNode' = IF err = NoErr THEN FetchAllNodeEvents(apiEvents) ELSE EmptyMap
    /\ evPc' = "done"
    /\ fetchWg' = fetchWg - 1
    /\ UNCHANGED << fn, args, out,
                    op, argNames, argSelector, apiNodes, apiPods, apiEvents, cancelled, pc,
                    nodes, nodesErr, podPc, podsByNode, podErr, spawnIdx, wpc, sem,
                    poolWg, results, nodeSet, allBlockers, calls, ret, retErr >>

\* wg.Wait returns in Collect: return podErr, or enter collectParallel
CollectJoin ==
    /\ pc = "wait_fetch"
    /\ WaitDone(fetchWg)
    /\ LET failure == FetchFailure(podErr, eventErr)
       IN IF failure # NoErr
          THEN /\ pc' = "done"
               /\ retErr' = failure
               /\ UNCHANGED << eventsByNode, results, wpc, spawnIdx >>
          ELSE /\ pc' = "spawn"
               /\ eventsByNode' = EventsOrEmpty(eventErr, eventsByNode)
               /\ results' = [i \in 1..Len(nodes) |-> ZeroNodeInfo]
               /\ wpc' = [i \in 1..Len(nodes) |-> "idle"]
               /\ spawnIdx' = 1
               /\ UNCHANGED retErr
    /\ UNCHANGED << fn, args, out,
                    op, argNames, argSelector, apiNodes, apiPods, apiEvents, cancelled,
                    nodes, nodesErr, podPc, evPc, fetchWg, podsByNode, podErr, eventErr,
                    sem, poolWg, nodeSet, allBlockers, calls, ret >>

\* one turn of the range loop: wg.Add(1) and go func(idx)
Spawn ==
    /\ pc = "spawn"
    /\ spawnIdx <= Len(nodes)
    /\ poolWg' = poolWg + 1
    /\ wpc' = [wpc EXCEPT ![spawnIdx] = "acquire"]
    /\ spawnIdx' = spawnIdx + 1
    /\ pc' = IF spawnIdx = Len(nodes) THEN "wait_pool" ELSE "spawn"
    /\ UNCHANGED << fn, args, out,
                    op, argNames, argSelector, apiNodes, apiPods, apiEvents, cancelled,
                    nodes, nodesErr, podPc, evPc, fetchWg, podsByNode, podErr,
                    eventsByNode, eventErr, sem, results, nodeSet, allBlockers, calls,
                    ret, retErr >>

\* worker idx takes a semaphore token
WorkerAcquire(idx) ==
    /\ wpc[idx] = "acquire"
    /\ CanAcquire(sem)
    /\ sem' = sem + 1
    /\ wpc' = [wpc EXCEPT ![idx] = "work"]
    /\ UNCHANGED << fn, args, out,
                    op, argNames, argSelector, apiNodes, apiPods, apiEvents, cancelled, pc,
                    nodes, nodesErr, podPc, evPc, fetchWg, podsByNode, podErr,
                    eventsByNode, eventErr, spawnIdx, poolWg, results, nodeSet,
                    allBlockers, calls, ret, retErr >>

\* worker idx computes its NodeInfo, writes its slot, and its deferred calls
\* give the token back and call wg.Done
WorkerRun(idx) ==
    /\ wpc[idx] = "work"
    /\ LET nodeName == nodes[idx].Name
       IN \E info \in collectNodeInfo(idx, nodes[idx], MapGetSlice(podsByNode, nodeName),
                                      MapGetSlice(eventsByNode, nodeName)) :
             results' = WriteResult(results, idx, info, Cardinality(WorkersDone))
    /\ sem' = Release(sem)
    /\ poolWg' = poolWg - 1
    /\ wpc' = [wpc EXCEPT ![idx] = "done"]
    /\ UNCHANGED << fn, args, out,
                    op, argNames, argSelector, apiNodes, apiPods, apiEvents, cancelled, pc,
                    nodes, nodesErr, podPc, evPc, fetchWg, podsByNode, podErr,
                    eventsByNode, eventErr, spawnIdx, nodeSet, allBlockers, calls, ret,
                    retErr >>

\* wg.Wait returns in collectParallel, which returns results
PoolJoin ==
    /\ pc = "wait_pool"
    /\ WaitDone(poolWg)
    /\ ret' = results
    /\ retErr' = NoErr
    /\ pc' = "done"
    /\ UNCHANGED << fn, args, out,
                    op, argNames, argSelector, apiNodes, apiPods, apiEvents, cancelled,
                    nodes, nodesErr, podPc, evPc, fetchWg, podsByNode, podErr,
                    eventsByNode, eventErr, spawnIdx, wpc, sem, poolWg, results, nodeSet,
                    allBlockers, calls >>

\* CollectPodBlockers builds nodeSet and calls FetchAllPods
PodBlockersCallFetch ==
    /\ op = "CollectPodBlockers"
    /\ pc = "start"
    /\ nodeSet' = Range(argNames)
    /\ calls' = [calls EXCEPT !.pods = @ + 1]
    /\ pc' = "pb_fetch"
    /\ UNCHANGED << fn, args, out,
                    op, argNames, argSelector, apiNodes, apiPods, apiEvents, cancelled,
                    nodes, nodesErr, podPc, evPc, fetchWg, podsByNode, podErr,
                    eventsByNode, eventErr, spawnIdx, wpc, sem, poolWg, results,
                    allBlockers, ret, retErr >>

\* FetchAllPods returns in CollectPodBlockers
PodBlockersFetchReturn ==
    /\ pc = "pb_fetch"
    /\ \E err \in FetchAllPodsErrors(cancelled) :
          /\ podErr' = err
          /\ podsByNode' = IF err = NoErr THEN FetchAllPods(apiPods) ELSE EmptyMap
          /\ retErr' = err
          /\ pc' = IF err # NoErr THEN "done" ELSE "pb_loop"
    /\ UNCHANGED << fn, args, out,
                    op, argNames, argSelector, apiNodes, apiPods, apiEvents, cancelled,
                    nodes, nodesErr, podPc, evPc, fetchWg, eventsByNode, eventErr,
                    spawnIdx, wpc, sem, poolWg, results, nodeSet, allBlockers, calls, ret >>

\* one turn of the range that lists the pods anew for its node
PodBlockersVisitListing ==
    /\ pc = "pb_loop"
    /\ \E nodeName \in nodeSet :
          /\ allBlockers' =
                allBlockers \o FindBlockingPods(MapGetSlice(podsByNode, nodeName), nodeName)
          /\ nodeSet' = nodeSet \ {nodeName}
    /\ calls' = [calls EXCEPT !.pods = @ + 1]
    /\ UNCHANGED << fn, args, out,
                    op, argNames, argSelector, apiNodes, apiPods, apiEvents, cancelled, pc,
                    nodes, nodesErr, podPc, evPc, fetchWg, podsByNode, podErr,
                    eventsByNode, eventErr, spawnIdx, wpc, sem, poolWg, results,
                    ret, retErr >>

\* one turn of the range over nodeSet, in map iteration order
PodBlockersVisit ==
    /\ pc = "pb_loop"
    /\ \E nodeName \in nodeSet :
          /\ allBlockers' =
                allBlockers \o FindBlockingPods(MapGetSlice(podsByNode, nodeName), nodeName)
          /\ nodeSet' = nodeSet \ {nodeName}
    /\ UNCHANGED << fn, args, out,
                    op, argNames, argSelector, apiNodes, apiPods, apiEvents, cancelled, pc,
                    nodes, nodesErr, podPc, evPc, fetchWg, podsByNode, podErr,
                    eventsByNode, eventErr, spawnIdx, wpc, sem, poolWg, results, calls,
                    ret, retErr >>

\* the range is over: CollectPodBlockers returns allBlockers
PodBlockersReturn ==
    /\ pc = "pb_loop"
    /\ nodeSet = {}
    /\ ret' = allBlockers
    /\ retErr' = NoErr
    /\ pc' = "done"
    /\ UNCHANGED << fn, args, out,
                    op, argNames, argSelector, apiNodes, apiPods, apiEvents, cancelled,
                    nodes, nodesErr, podPc, evPc, fetchWg, podsByNode, podErr,
                    eventsByNode, eventErr, spawnIdx, wpc, sem, poolWg, results, nodeSet,
                    allBlockers, calls >>

Next ==
    \/ Cancel
    \/ CollectCallFetchNodes
    \/ CollectFetchNodesReturn
    \/ PodFetchCall
    \/ PodFetchReturn
    \/ EventFetchCall
    \/ EventFetchReturn
    \/ CollectJoin
    \/ Spawn
    \/ \E idx \in DOMAIN wpc : WorkerAcquire(idx)
    \/ \E idx \in DOMAIN wpc : WorkerRun(idx)
    \/ PoolJoin
    \/ PodBlockersCallFetch
    \/ PodBlockersFetchReturn
    \/ PodBlockersVisit
    \/ PodBlockersReturn

Spec == Init /\ [][Next]_vars

----------------------------------------------------------------------------
(* collectParallel alone, on more nodes than there are semaphore tokens *)

\* the lists made of some of the elements of s, in their order
SubSeqs(s) == {AppendKept(s, keep, 1) : keep \in SUBSET (1..Len(s))}

\* a pass over two nodes of a cluster that has any part of the pods and of
\* the events of the fixture
InitFrame ==
    /\ op \in {"Collect", "CollectPodBlockers"}
    /\ argNames = <<"n1", "n2">>
    /\ argSelector = NoSelector
    /\ apiNodes = FirstNodes(2)
    /\ apiPods \in SubSeqs(ClusterPods)
    /\ apiEvents \in SubSeqs(ClusterEvents)
    /\ pc = "start"
    /\ Fresh
    /\ NoCall

SpecFrame == InitFrame /\ [][Next]_vars

PoolSizes == {1, maxWorkers + MaxExtraNodes}

\* k nodes created one after the other, which FetchNodes returns as listed
PoolNodes(k) == [i \in 1..k |-> [NodeAt(i) EXCEPT !.CreationTimestamp = i]]

\* the state in which Collect enters collectParallel, for a cluster of one
\* of the given sizes without pods and events
PoolStart(sizes) ==
    /\ op = "Collect"
    /\ argNames = << >>
    /\ argSelector = NoSelector
    /\ apiNodes \in {PoolNodes(k) : k \in sizes}
    /\ apiPods = << >>
    /\ apiEvents = << >>
    /\ cancelled = FALSE
    /\ pc = "spawn"
    /\ nodes = apiNodes
    /\ nodesErr = NoErr
    /\ podPc = "done"
    /\ evPc = "done"
    /\ fetchWg = 0
    /\ podsByNode = EmptyMap
    /\ podErr = NoErr
    /\ eventsByNode = EmptyMap
    /\ eventErr = NoErr
    /\ spawnIdx = 1
    /\ wpc = [i \in 1..Len(nodes) |-> "idle"]
    /\ sem = 0
    /\ poolWg = 0
    /\ results = [i \in 1..Len(nodes) |-> ZeroNodeInfo]
    /\ nodeSet = {}
    /\ allBlockers = << >>
    /\ calls = [clients |-> 0, discovery |-> 0, nodes |-> 1, pods |-> 1, events |-> 1]
    /\ ret = << >>
    /\ retErr = NoErr
    /\ NoCall

InitPool == PoolStart(PoolSizes)

NextPool ==
    \/ Spawn
    \/ \E idx \in DOMAIN wpc : WorkerAcquire(idx)
    \/ \E idx \in DOMAIN wpc : WorkerRun(idx)
    \/ PoolJoin

SpecPool == InitPool /\ [][NextPool]_vars

\* collectParallel under the Go scheduler, which does not leave every
\* runnable goroutine waiting for ever: some step that can be taken is taken
InitPoolFair == PoolStart({1, maxWorkers + 1})

SpecPoolFair == InitPoolFair /\ [][NextPool]_vars /\ WF_vars(NextPool)

----------------------------------------------------------------------------
(* FetchNodes alone, as Collect calls it, on every arrangement of the nodes *)

\* the API lists any of the first MaxFetchNodes nodes, in any order
Listings ==
    UNION {{[i \in 1..Len(p) |-> NodeAt(p[i])] : p \in Orders(S)} : S \in SUBSET (1..MaxFetchNodes)}

InitFetch ==
    /\ op = "Collect"
    /\ argNames \in SeqsUpTo({"n1", "n2", "ghost"}, MaxFetchNames)
    /\ argSelector \in Selectors
    /\ apiNodes \in Listings
    /\ apiPods = ClusterPods
    /\ apiEvents = ClusterEvents
    /\ pc = "start"
    /\ Fresh
    /\ NoCall

NextFetch ==
    \/ Cancel
    \/ CollectCallFetchNodes
    \/ CollectFetchNodesReturn

SpecFetch == InitFetch /\ [][NextFetch]_vars

----------------------------------------------------------------------------
(* Functions called on their own *)

\* no pass is running
NoPass ==
    /\ op = ""
    /\ argNames = << >>
    /\ argSelector = NoSelector
    /\ apiNodes = << >>
    /\ apiPods = << >>
    /\ apiEvents = << >>
    /\ pc = "none"
    /\ Fresh

passVars ==
    << op, argNames, argSelector, apiNodes, apiPods, apiEvents, cancelled, pc,
       nodes, nodesErr, podPc, evPc, fetchWg, podsByNode, podErr, eventsByNode,
       eventErr, spawnIdx, wpc, sem, poolWg, results, nodeSet, allBlockers,
       calls, ret, retErr >>

\* the call has not returned yet
Pending(name) == fn = name /\ out = << >>

\* the call returns result
Return(result) ==
    /\ out' = <<result>>
    /\ UNCHANGED << fn, args >>
    /\ UNCHANGED passVars

----------------------------------------------------------------------------
(* run: the command, from its arguments to its returned error.  The error  *)
(* run returns is the chain of its messages, << >> for nil.                *)

\* run without the check of its arguments
ValidateArgsNoCheck(podsFlag, n) == << >>

\* the validation of run: --pods requires node names
ValidateArgs(podsFlag, n) == IF podsFlag /\ n = 0 THEN <<ErrPodsNeedNodes>> ELSE << >>

\* fmt.Errorf("prefix: %w", err)
Wrap(prefix, err) == <<prefix, err>>

InitRun ==
    /\ fn = "run"
    /\ args \in [args : SeqsUpTo({"n1", "n2", "ghost"}, MaxNames),
                  opts : [pods : BOOLEAN, selector : Selectors]]
    /\ out = << >>
    /\ op = ""
    /\ argNames = << >>
    /\ argSelector = NoSelector
    /\ apiNodes \in {FirstNodes(k) : k \in 0..MaxNodes}
    /\ apiPods = ClusterPods
    /\ apiEvents = ClusterEvents
    /\ pc = "run"
    /\ Fresh

\* run validates its arguments
RunValidate ==
    /\ fn = "run"
    /\ pc = "run"
    /\ LET err == ValidateArgs(args.opts.pods, Len(args.args))
       IN IF err # << >>
          THEN out' = <<err>> /\ pc' = "exit"
          ELSE out' = out /\ pc' = "new_client"
    /\ UNCHANGED << fn, args, op, argNames, argSelector, apiNodes, apiPods, apiEvents,
                    cancelled, nodes, nodesErr, podPc, evPc, fetchWg, podsByNode, podErr,
                    eventsByNode, eventErr, spawnIdx, wpc, sem, poolWg, results, nodeSet,
                    allBlockers, calls, ret, retErr >>

\* kube.NewClient()
RunNewClient ==
    /\ fn = "run"
    /\ pc = "new_client"
    /\ calls' = [calls EXCEPT !.clients = @ + 1]
    /\ \E err \in {NoErr, ErrConfig} :
          IF err # NoErr
          THEN out' = <<Wrap("failed to create Kubernetes client", err)>> /\ pc' = "exit"
          ELSE out' = out /\ pc' = "new_discovery"
    /\ UNCHANGED << fn, args, op, argNames, argSelector, apiNodes, apiPods, apiEvents,
                    cancelled, nodes, nodesErr, podPc, evPc, fetchWg, podsByNode, podErr,
                    eventsByNode, eventErr, spawnIdx, wpc, sem, poolWg, results, nodeSet,
                    allBlockers, ret, retErr >>

\* kube.NewDiscoveryClient()
RunNewDiscoveryClient ==
    /\ fn = "run"
    /\ pc = "new_discovery"
    /\ calls' = [calls EXCEPT !.clients = @ + 1]
    /\ \E err \in {NoErr, ErrConfig} :
          IF err # NoErr
          THEN out' = <<Wrap("failed to create discovery client", err)>> /\ pc' = "exit"
          ELSE out' = out /\ pc' = "detect"
    /\ UNCHANGED << fn, args, op, argNames, argSelector, apiNodes, apiPods, apiEvents,
                    cancelled, nodes, nodesErr, podPc, evPc, fetchWg, podsByNode, podErr,
                    eventsByNode, eventErr, spawnIdx, wpc, sem, poolWg, results, nodeSet,
                    allBlockers, ret, retErr >>

\* karpenter.DetectCapabilities, whose failure is not fatal; then run makes
\* the collector and the printer and calls CollectPodBlockers or Collect
RunDetectCapabilities ==
    /\ fn = "run"
    /\ pc = "detect"
    /\ calls' = [calls EXCEPT !.discovery = @ + 1]
    /\ op' = IF args.opts.pods THEN "CollectPodBlockers" ELSE "Collect"
    /\ argNames' = args.args
    /\ argSelector' = IF args.opts.pods THEN NoSelector ELSE args.opts.selector
    /\ pc' = "start"
    /\ UNCHANGED << fn, args, out, apiNodes, apiPods, apiEvents, cancelled, nodes,
                    nodesErr, podPc, evPc, fetchWg, podsByNode, podErr, eventsByNode,
                    eventErr, spawnIdx, wpc, sem, poolWg, results, nodeSet, allBlockers,
                    ret, retErr >>

\* the pass has returned: run wraps its error, or prints and returns the
\* printer's error
RunReturn ==
    /\ fn = "run"
    /\ pc = "done"
    /\ pc' = "exit"
    /\ IF retErr # NoErr
       THEN out' = << Wrap(IF op = "CollectPodBlockers"
                          THEN "failed to collect pod blockers"
                          ELSE "failed to collect node information", retErr) >>
       ELSE \E err \in {NoErr, ErrWrite} :
               out' = << IF err = NoErr THEN << >> ELSE <<err>> >>
    /\ UNCHANGED << fn, args, op, argNames, argSelector, apiNodes, apiPods, apiEvents,
                    cancelled, nodes, nodesErr, podPc, evPc, fetchWg, podsByNode, podErr,
                    eventsByNode, eventErr, spawnIdx, wpc, sem, poolWg, results, nodeSet,
                    allBlockers, calls, ret, retErr >>

NextRun ==
    \/ RunValidate
    \/ RunNewClient
    \/ RunNewDiscoveryClient
    \/ RunDetectCapabilities
    \/ Next
    \/ RunReturn

SpecRun == InitRun /\ [][NextRun]_vars

----------------------------------------------------------------------------
(* CalculateUtilization alone *)

\* pods in every phase: with a container that requests both resources, one
\* without requests and an init container that requests CPU only; or with
\* requests that do not divide the allocatable amounts evenly
UtilPods ==
    {[Phase |-> ph, Containers |-> w.Containers, InitContainers |-> w.InitContainers] :
        ph \in {"Pending", "Running", "Unknown", "", PodSucceeded, PodFailed},
        w \in { [Containers |-> << ("cpu" :> 500) @@ ("memory" :> 1000), << >> >>,
                 InitContainers |-> << ("cpu" :> 250) >>],
                [Containers |-> << ("memory" :> 2500) >>,
                 InitContainers |-> << ("cpu" :> 83) @@ ("memory" :> 7) >>] }}

\* Status.Allocatable: nil, or with each resource absent, zero or positive
UtilAllocatables ==
    {c @@ m : c \in {<< >>} \cup {("cpu" :> v) : v \in {0, 1000, 3000}},
              m \in {<< >>} \cup {("memory" :> v) : v \in {0, 2000}}}

InitUtil ==
    /\ fn = "CalculateUtilization"
    /\ args \in [node : {[Allocatable |-> a] : a \in UtilAllocatables},
                  pods : SeqsUpTo(UtilPods, MaxUtilPods)]
    /\ out = << >>
    /\ NoPass

CallCalculateUtilization ==
    /\ Pending("CalculateUtilization")
    /\ Return(CalculateUtilization(args.node, args.pods))

SpecUtil == InitUtil /\ [][CallCalculateUtilization]_vars

\* a memory amount of b bytes as a Quantity
Bytes(b) == b * 1000

\* memory amounts in bytes whose MilliValue fits the machine word, from
\* nothing up to a thousandth of the word's range
MemoryBytes == {0, 1, 2, 5, 10, 11, 20, 100, 500, MaxInt64 \div 1000}

InitPercentage ==
    /\ fn = "calculatePercentage"
    /\ args \in [used : {Bytes(b) : b \in MemoryBytes},
                  total : {Bytes(b) : b \in MemoryBytes}]
    /\ out = << >>
    /\ NoPass

CallCalculatePercentage ==
    /\ Pending("calculatePercentage")
    /\ Return(calculatePercentage(args.used, args.total))

SpecPercentage == InitPercentage /\ [][CallCalculatePercentage]_vars

----------------------------------------------------------------------------
(* DetectPodBlocker alone *)

\* a map that lacks key or gives it one of values
OptionalEntry(key, values) == {<< >>} \cup {(key :> v) : v \in values}

\* nil, and the pods with every combination of the three annotations
\* absent, "true", "false", "True" or empty
PodPointers ==
    {Nil} \cup
    {Ref([Annotations |-> e @@ d @@ c]) :
        e \in OptionalEntry(AnnotationDoNotEvict, {"true", "false", "True", ""}),
        d \in OptionalEntry(AnnotationDoNotDisrupt, {"true", "false", "True", ""}),
        c \in OptionalEntry(AnnotationDoNotConsolidate, {"true", "false", "True", ""})}

InitPodBlocker ==
    /\ fn = "DetectPodBlocker"
    /\ args \in [pod : PodPointers]
    /\ out = << >>
    /\ NoPass

CallDetectPodBlocker ==
    /\ Pending("DetectPodBlocker")
    /\ Return(DetectPodBlocker(args.pod))

SpecPodBlocker == InitPodBlocker /\ [][CallDetectPodBlocker]_vars

----------------------------------------------------------------------------
(* NormalizeEventMessage alone *)

\* the texts of the patterns, some in upper case; "PDB " and "pdb" followed
\* by a newline; and a text that no pattern matches
Fragments ==
    { <<"P", "D", "B", " ">>,
      <<"p", "d", "b", "\n">>,
      PatPrevent,
      <<"L", "o", "c", "a", "l", " ", "S", "t", "o", "r", "a", "g", "e">>,
      PatNonReplicated,
      PatWouldIncreaseCost,
      PatInUseSecurityGroup,
      <<"O", "N", "-", "D", "E", "M", "A", "N", "D">>,
      PatDoNotConsolidate,
      PatDoNotDisrupt,
      PatDoNotEvict,
      <<"x", " ">> }

RECURSIVE Concat(_)
Concat(ss) == IF ss = << >> THEN << >> ELSE Head(ss) \o Concat(Tail(ss))

\* the messages made of at most MaxFragments fragments
Messages == {Concat(fs) : fs \in SeqsUpTo(Fragments, MaxFragments)}

InitNormalize ==
    /\ fn = "NormalizeEventMessage"
    /\ args \in [message : Messages]
    /\ out = << >>
    /\ NoPass

CallNormalizeEventMessage ==
    /\ Pending("NormalizeEventMessage")
    /\ Return(NormalizeEventMessage(args.message))

SpecNormalize == InitNormalize /\ [][CallNormalizeEventMessage]_vars

----------------------------------------------------------------------------
(* DetectBlockers alone *)

PodDA == <<"d", "/", "a">>
PodDGone == <<"d", "/", "g", "o", "n", "e">>

\* Pod "id"
QuotePod(id) == PodQuotePrefix \o id \o <<"\"">>

\* Pod "d/a", Pod "d/gone": would increase cost
MsgTwoPods ==
    QuotePod(PodDA) \o <<",", " ">> \o QuotePod(PodDGone) \o <<":", " ">> \o PatWouldIncreaseCost
\* Pod "a" do-not-evict
MsgBareName == QuotePod(<<"a">>) \o <<" ">> \o PatDoNotEvict

BlockerEvents ==
    { [Reason |-> "CannotConsolidate", Message |-> MsgLocalStorageLive],
      [Reason |-> "Unconsolidatable", Message |-> MsgStaleNonReplicated],
      [Reason |-> "DisruptionBlocked", Message |-> MsgTwoPods],
      [Reason |-> "Unconsolidatable", Message |-> MsgPdb],
      [Reason |-> "Started", Message |-> MsgUnrelatedOnDemand],
      [Reason |-> "CannotConsolidate", Message |-> MsgBareName] }

BlockerPods ==
    { << >>,
      << [Annotations |-> (AnnotationDoNotEvict :> "true")] >> }

InitBlockers ==
    /\ fn = "DetectBlockers"
    /\ args \in [pods : BlockerPods,
                  events : SeqsUpTo(BlockerEvents, MaxBlockerEvents),
                  cpuUtil : {79, 80},
                  memUtil : {79, 80},
                  existingPodNames : SUBSET {PodDA, PodDGone}]
    /\ out = << >>
    /\ NoPass

CallDetectBlockers ==
    /\ Pending("DetectBlockers")
    /\ \E blockers \in DetectBlockers(args.pods, args.events, args.cpuUtil, args.memUtil,
                                       args.existingPodNames) :
          Return(blockers)

SpecBlockers == InitBlockers /\ [][CallDetectBlockers]_vars

\* a second call with the same arguments
CallDetectBlockersAgain ==
    /\ fn = "DetectBlockers"
    /\ Len(out) = 1
    /\ \E blockers \in DetectBlockers(args.pods, args.events, args.cpuUtil, args.memUtil,
                                       args.existingPodNames) :
          out' = Append(out, blockers)
    /\ UNCHANGED << fn, args, passVars >>

\* DetectBlockers for a node without pods on which d/a is known, with
\* events that yield different blockers
InitTwice ==
    /\ fn = "DetectBlockers"
    /\ args \in [pods : {<< >>},
                  events : SeqsUpTo({[Reason |-> "CannotConsolidate",
                                      Message |-> MsgLocalStorageLive],
                                     [Reason |-> "DisruptionBlocked", Message |-> MsgTwoPods],
                                     [Reason |-> "Unconsolidatable", Message |-> MsgPdb]},
                                    MaxBlockerEvents),
                  cpuUtil : {79, 80},
                  memUtil : {79},
                  existingPodNames : {{PodDA}}]
    /\ out = << >>
    /\ NoPass

NextTwice == CallDetectBlockers \/ CallDetectBlockersAgain

SpecTwice == InitTwice /\ [][NextTwice]_vars

\* events of every reason code and of near misses of them, whose messages
\* open with one of the three keywords in some spelling, with a near miss
\* of one or with nothing, and go on with a blocker pattern or without one
GateEvents ==
    {[Reason |-> reason, Message |-> opening \o rest] :
        reason \in {"CannotConsolidate", "DeprovisioningBlocked", "DisruptionBlocked",
                    "cannotconsolidate", "DisruptionBlockedAgain", "Started", ""},
        opening \in {<< >>,
                     <<"C", "o", "n", "s", "o", "l", "i", "d", "a", "t", "e", "d", " ">>,
                     <<"D", "E", "P", "R", "O", "V", "I", "S", "I", "O", "N", "I", "N", "G", " ">>,
                     <<"d", "i", "s", "r", "u", "p", "t", "s", " ">>,
                     <<"c", "o", "n", "s", "o", "l", "i", "d", "a", " ">>},
        rest \in {<< >>, PatLocalStorage, PatNonReplicated, PatOnDemand, PatDoNotEvict}}

\* DetectBlockers for a node without pods, below the threshold, and with at
\* most one event
InitGate ==
    /\ fn = "DetectBlockers"
    /\ args \in [pods : {<< >>},
                  events : {<< >>} \cup {<<event>> : event \in GateEvents},
                  cpuUtil : {79},
                  memUtil : {79},
                  existingPodNames : {{}}]
    /\ out = << >>
    /\ NoPass

SpecGate == InitGate /\ [][CallDetectBlockers]_vars

----------------------------------------------------------------------------
(* GetPoolName, DetectNodeVersion and GetCapacityType alone *)

\* nil, and the nodes with every combination of the three labels
NodePointers ==
    {Nil} \cup
    {Ref([Labels |-> n @@ p @@ c]) :
        n \in OptionalEntry(LabelNodePool, {"", "np", "prov"}),
        p \in OptionalEntry(LabelProvisionerName, {"", "np", "prov"}),
        c \in OptionalEntry(LabelCapacityType, {"spot", "on-demand"})}

InitLabels ==
    /\ fn \in {"GetPoolName", "DetectNodeVersion", "GetCapacityType"}
    /\ args \in [node : NodePointers]
    /\ out = << >>
    /\ NoPass

CallGetPoolName ==
    /\ Pending("GetPoolName")
    /\ Return(GetPoolName(args.node))

CallDetectNodeVersion ==
    /\ Pending("DetectNodeVersion")
    /\ Return(DetectNodeVersion(args.node))

CallGetCapacityType ==
    /\ Pending("GetCapacityType")
    /\ Return(GetCapacityType(args.node))

NextLabels ==
    \/ CallGetPoolName
    \/ CallDetectNodeVersion
    \/ CallGetCapacityType

SpecLabels == InitLabels /\ [][NextLabels]_vars

----------------------------------------------------------------------------
(* Properties *)

Returned == pc = "done"

\* FetchNodes has returned to Collect
NodesFetched == op = "Collect" /\ pc \notin {"start", "fetch_nodes"}

\* the pods of nodes[i] in the grouping
PodsOf(i) == MapGetSlice(podsByNode, nodes[i].Name)

\* the blockers of nodes[i] that come from its pods and its utilization alone
BlockersWithoutEvents(i) ==
    LET util == CalculateUtilization(nodes[i], PodsOf(i))
    IN blockerSet(PodsOf(i), << >>, util[1], util[2], BuildPodNameSet(PodsOf(i)))

\* C1: when the event fetch fails and the node and pod fetches succeed,
\* Collect returns no error and one NodeInfo per fetched node, and the
\* blockers of every node are those DetectBlockers yields for an empty event
\* list.
EventFailureDegrades ==
    (NodesFetched /\ Returned /\ nodesErr = NoErr /\ Len(nodes) > 0
        /\ podErr = NoErr /\ eventErr # NoErr)
    => /\ retErr = NoErr
       /\ Len(ret) = Len(nodes)
       /\ \A i \in 1..Len(nodes) : Range(ret[i].Blockers) = BlockersWithoutEvents(i)

\* n1, whose events would add local-storage, is reported without it
EventFailureDegradesWitness ==
    /\ NodesFetched /\ Returned /\ podErr = NoErr /\ eventErr = ErrEventList
    /\ retErr = NoErr
    /\ \E i \in 1..Len(ret) :
          /\ nodes[i].Name = "n1"
          /\ Range(ret[i].Blockers) = {BlockerHighUtilization, BlockerDoNotEvict}

\* C2: when the pod fetch fails, the pass returns that error and no records
\* and no per-node work is ever started, whatever the event fetch did; this
\* holds of Collect and of CollectPodBlockers.
PodFailureIsFatal ==
    podErr # NoErr
    => /\ \A i \in DOMAIN wpc : wpc[i] = "idle"
       /\ results = << >>
       /\ allBlockers = << >>
       /\ Returned => (retErr = podErr /\ ret = << >>)

\* both fetches of Collect failed, each with its own error
PodFailureIsFatalWitness ==
    /\ op = "Collect" /\ Returned
    /\ podErr = ErrPodList /\ eventErr = ErrEventList
    /\ retErr = ErrPodList

\* C3: when the node fetch fails Collect returns that error and no records at
\* once, and the pod fetch and the event fetch are never issued.
NodeFailureIsFatal ==
    nodesErr # NoErr
    => /\ Returned
       /\ retErr = nodesErr
       /\ ret = << >>
       /\ calls.pods = 0 /\ calls.events = 0
       /\ podPc = "idle" /\ evPc = "idle"

NodeFailureIsFatalWitness ==
    Returned /\ nodesErr = ErrNodeList /\ retErr = ErrNodeList /\ calls.nodes = 1

\* C4: when the node fetch succeeds and no node matches, Collect returns an
\* empty result and no error without issuing the pod or the event fetch.
NoNodesIsEmptySuccess ==
    (NodesFetched /\ nodesErr = NoErr /\ Len(nodes) = 0)
    => /\ Returned
       /\ ret = << >> /\ retErr = NoErr
       /\ calls.pods = 0 /\ calls.events = 0
       /\ podPc = "idle" /\ evPc = "idle"

\* the cluster has nodes, but none passes the name filter and the selector
NoNodesIsEmptySuccessWitness ==
    /\ NodesFetched /\ nodesErr = NoErr /\ Len(nodes) = 0 /\ Len(apiNodes) > 0
    /\ Returned /\ retErr = NoErr

\* the NodeInfo in slot i is the one of the i-th node of the sorted list
SlotIsOfNode(info, i) ==
    /\ info.Node = i
    /\ info \in collectNodeInfo(i, nodes[i], PodsOf(i), MapGetSlice(eventsByNode, nodes[i].Name))

\* C5: on success Collect returns exactly one NodeInfo per fetched node and
\* the record at position i is the one of the i-th node of the sorted list,
\* whatever the order in which the workers run and finish.
ResultsFollowNodeOrder ==
    /\ \A i \in DOMAIN wpc : wpc[i] = "done" => SlotIsOfNode(results[i], i)
    /\ (NodesFetched /\ Returned /\ retErr = NoErr /\ Len(nodes) > 0)
       => /\ Len(ret) = Len(nodes)
          /\ \A i \in 1..Len(nodes) : SlotIsOfNode(ret[i], i)

\* the worker of the second node has finished before the worker of the first
\* has even taken a token
ResultsFollowNodeOrderWitness ==
    /\ {1, 2} \subseteq DOMAIN wpc
    /\ wpc[2] = "done" /\ wpc[1] = "acquire"
    /\ results[2].Node = 2 /\ results[1] = ZeroNodeInfo

\* C6: at most maxWorkers (10) per-node computations are in progress at any
\* time, however many nodes there are: the workers holding a token are
\* exactly the tokens in the semaphore, and these never exceed its capacity.
AtMostMaxWorkers ==
    /\ Cardinality(Holding) <= maxWorkers
    /\ sem = Cardinality(Holding)

\* ten workers compute while another one waits for a token
AtMostMaxWorkersWitness ==
    /\ Cardinality(Holding) = maxWorkers
    /\ \E i \in DOMAIN wpc : wpc[i] = "acquire"

\* C7: no per-node computation is spawned or started before both the pod
\* fetch and the event fetch have completed, the failed event fetch having
\* left an empty grouping.
WorkAfterBothFetches ==
    (pc \in {"spawn", "wait_pool"} \/ \E i \in DOMAIN wpc : wpc[i] # "idle")
    => /\ podPc = "done" /\ evPc = "done"
       /\ fetchWg = 0
       /\ podErr = NoErr
       /\ eventErr # NoErr => DOMAIN eventsByNode = {}

\* a worker computes after an event fetch that failed
WorkAfterBothFetchesWitness ==
    /\ \E i \in DOMAIN wpc : wpc[i] = "work"
    /\ podPc = "done" /\ evPc = "done" /\ eventErr = ErrEventList

CancelStep ==
    /\ (cancelled /\ pc = "fetch_nodes" /\ pc' # "fetch_nodes")
       => (nodesErr' = ErrCtx /\ pc' = "done" /\ retErr' = ErrCtx)
    /\ (cancelled /\ podPc = "listing" /\ podPc' # "listing") => podErr' = ErrCtx
    /\ (cancelled /\ evPc = "listing" /\ evPc' # "listing") => eventErr' = ErrCtx
    /\ (cancelled /\ pc = "pb_fetch" /\ pc' # "pb_fetch")
       => (podErr' = ErrCtx /\ pc' = "done" /\ retErr' = ErrCtx)
    /\ (op = "Collect" /\ pc' = "done" /\ podErr' = ErrCtx) => retErr' = ErrCtx
    /\ (op = "Collect" /\ pc # "done" /\ pc' = "done" /\ nodesErr' = NoErr
          /\ Len(nodes') > 0 /\ podErr' = NoErr)
       => (retErr' = NoErr /\ Len(ret') = Len(nodes'))

Selected ==
    {n \in Range(apiNodes) :
        /\ SelectorMatches(n.Labels, argSelector)
        /\ Len(argNames) > 0 => n.Name \in Range(argNames)}

\* C9 as stated: names decide alone when given, else the selector, else all.
NamesThenSelectorThenAll ==
    (NodesFetched /\ nodesErr = NoErr)
    => Range(nodes) =
          IF Len(argNames) > 0 THEN {n \in Range(apiNodes) : n.Name \in Range(argNames)}
          ELSE IF argSelector # NoSelector
               THEN {n \in Range(apiNodes) : SelectorMatches(n.Labels, argSelector)}
          ELSE Range(apiNodes)

\* C9 as amended: FetchNodes returns the nodes that match the selector (all
\* nodes when it is empty) and, when names are given, whose name is also in
\* the name set: names and selector together select the intersection.
NamesAndSelector ==
    (NodesFetched /\ nodesErr = NoErr) => Range(nodes) = Selected

\* n1 and n2 are both named, the selector keeps only n1
NamesAndSelectorWitness ==
    /\ NodesFetched /\ nodesErr = NoErr
    /\ argSelector = SelectorSpot
    /\ {"n1", "n2"} \subseteq Range(argNames)
    /\ {"n1", "n2"} \subseteq {apiNodes[i].Name : i \in 1..Len(apiNodes)}
    /\ {nodes[i].Name : i \in 1..Len(nodes)} = {"n1"}

\* C10: the slice FetchNodes returns holds every selected node exactly once
\* and nothing else, and is in non-decreasing order of creation timestamp.
SortedPermutation ==
    (NodesFetched /\ nodesErr = NoErr)
    => /\ \A n \in Selected : Cardinality({i \in 1..Len(nodes) : nodes[i] = n}) = 1
       /\ Len(nodes) = Cardinality(Selected)
       /\ \A i, j \in 1..Len(nodes) :
             i < j => nodes[i].CreationTimestamp <= nodes[j].CreationTimestamp

\* a name given twice and an unknown name; the API lists the younger n1
\* before n2, and n2 comes back first
SortedPermutationWitness ==
    /\ NodesFetched /\ nodesErr = NoErr
    /\ argNames = <<"n1", "ghost", "n2", "n1">>
    /\ Len(apiNodes) = 3 /\ apiNodes[1].Name = "n1"
    /\ Len(nodes) = 2 /\ nodes[1].Name = "n2" /\ nodes[2].Name = "n1"

\* the call of fn has returned
Called(name) == fn = name /\ out # << >>

\* a resource of the allocatable list is absent or zero
NoCapacity(allocatable, resource) ==
    resource \notin DOMAIN allocatable \/ allocatable[resource] = 0

\* C11: CalculateUtilization returns (0, 0) when the node has no allocatable
\* data or its allocatable CPU or memory is zero, whatever the pods request.
ZeroAllocatableIsZero ==
    (/\ Called("CalculateUtilization")
     /\ \/ NoCapacity(args.node.Allocatable, "cpu")
        \/ NoCapacity(args.node.Allocatable, "memory"))
    => out[1] = <<0, 0>>

\* the node has CPU but zero memory, and a running pod requests both
ZeroAllocatableIsZeroWitness ==
    /\ Called("CalculateUtilization")
    /\ args.node.Allocatable = ("cpu" :> 1000) @@ ("memory" :> 0)
    /\ Len(args.pods) = 2
    /\ \A i \in 1..2 : args.pods[i].Phase = "Running"
    /\ out[1] = <<0, 0>>

RefTerminal == {"Succeeded", "Failed"}

\* the pods of the list that are not in a terminal phase
Live(pods) == AppendKept(pods, {i \in 1..Len(pods) : pods[i].Phase \notin RefTerminal}, 1)

\* the list with every pod that is not in a terminal phase marked Running
AsRunning(pods) ==
    [i \in 1..Len(pods) |->
        IF pods[i].Phase \in RefTerminal THEN pods[i] ELSE [pods[i] EXCEPT !.Phase = "Running"]]

\* C12: pods in phase Succeeded or Failed add nothing to the totals: the
\* result is that of the list without them; the pods in any other phase
\* count as running pods do.
TerminalPodsCountZero ==
    Called("CalculateUtilization")
    => /\ out[1] = CalculateUtilization(args.node, Live(args.pods))
       /\ out[1] = CalculateUtilization(args.node, AsRunning(args.pods))

\* a failed pod next to a pending one: only the pending pod is counted
TerminalPodsCountZeroWitness ==
    /\ Called("CalculateUtilization")
    /\ args.node.Allocatable = ("cpu" :> 1000) @@ ("memory" :> 2000)
    /\ Len(args.pods) = 2
    /\ args.pods[1].Phase = "Failed" /\ args.pods[2].Phase = "Pending"
    /\ args.pods[1].Containers = args.pods[2].Containers
    /\ out[1] = <<75, 50>>

RECURSIVE SumSeq(_)
SumSeq(s) == IF s = << >> THEN 0 ELSE Head(s) + SumSeq(Tail(s))

\* what the containers and init containers of a pod request of a resource
RefPodRequest(pod, resource) ==
    LET cs == pod.Containers \o pod.InitContainers
    IN SumSeq([i \in 1..Len(cs) |-> IF resource \in DOMAIN cs[i] THEN cs[i][resource] ELSE 0])

\* S: the requests of all pods that are not in a terminal phase
RefRequests(pods, resource) ==
    SumSeq([i \in 1..Len(pods) |->
               IF pods[i].Phase \in RefTerminal THEN 0 ELSE RefPodRequest(pods[i], resource)])

\* C13: for a node with non-zero allocatable CPU and memory the result is,
\* for each resource, floor(100 * S / A), S being the requests of all
\* containers and init containers of the pods not in a terminal phase and
\* A the allocatable amount; it is not capped at 100.
UtilizationIsFloorOfRatio ==
    (/\ Called("CalculateUtilization")
     /\ ~NoCapacity(args.node.Allocatable, "cpu")
     /\ ~NoCapacity(args.node.Allocatable, "memory"))
    => out[1] = << (100 * RefRequests(args.pods, "cpu")) \div args.node.Allocatable["cpu"],
                  (100 * RefRequests(args.pods, "memory")) \div args.node.Allocatable["memory"] >>

\* 833 of 1000 milli-CPU is 83%, 3507 of 2000 for memory is 175%
UtilizationIsFloorOfRatioWitness ==
    /\ Called("CalculateUtilization")
    /\ args.node.Allocatable = ("cpu" :> 1000) @@ ("memory" :> 2000)
    /\ out[1] = <<83, 175>>

\* the annotation key of pod p is present with the value "true"
IsTrue(p, key) == key \in DOMAIN p.Annotations /\ p.Annotations[key] = "true"

\* C14: DetectPodBlocker returns do-not-evict, do-not-disrupt or
\* do-not-consolidate with true for the first of the three annotations, in
\* this order, whose value is exactly "true", and the empty blocker with
\* false otherwise: for a nil pod, for a pod without annotations and for any
\* other value.
FirstTrueAnnotationWins ==
    Called("DetectPodBlocker")
    => out[1] =
          IF args.pod = << >> THEN <<"", FALSE>>
          ELSE IF IsTrue(args.pod[1], "karpenter.sh/do-not-evict") THEN <<"do-not-evict", TRUE>>
          ELSE IF IsTrue(args.pod[1], "karpenter.sh/do-not-disrupt")
               THEN <<"do-not-disrupt", TRUE>>
          ELSE IF IsTrue(args.pod[1], "karpenter.sh/do-not-consolidate")
               THEN <<"do-not-consolidate", TRUE>>
          ELSE <<"", FALSE>>

\* do-not-evict is "True", the two other annotations are "true"
FirstTrueAnnotationWinsWitness ==
    /\ Called("DetectPodBlocker")
    /\ args.pod # << >>
    /\ args.pod[1].Annotations =
          ("karpenter.sh/do-not-evict" :> "True") @@ ("karpenter.sh/do-not-disrupt" :> "true")
          @@ ("karpenter.sh/do-not-consolidate" :> "true")
    /\ out[1] = <<"do-not-disrupt", TRUE>>

\* the blocker of the first pattern, in the order of the claim, that the
\* lower-cased text matches
RefFirstPattern(lower) ==
    IF MatchPdbPrevent(lower) THEN "pdb-violation"
    ELSE IF Contains(lower, PatLocalStorage) THEN "local-storage"
    ELSE IF Contains(lower, PatNonReplicated) THEN "non-replicated"
    ELSE IF Contains(lower, PatWouldIncreaseCost) THEN "would-increase-cost"
    ELSE IF Contains(lower, PatInUseSecurityGroup) THEN "in-use-security-group"
    ELSE IF Contains(lower, PatOnDemand) THEN "on-demand-protection"
    ELSE IF Contains(lower, PatDoNotConsolidate) THEN "do-not-consolidate"
    ELSE IF Contains(lower, PatDoNotDisrupt) THEN "do-not-disrupt"
    ELSE IF Contains(lower, PatDoNotEvict) THEN "do-not-evict"
    ELSE ""

\* C15: NormalizeEventMessage returns the blocker of the first pattern, in
\* the order pdb...prevent, local storage, non-replicated, would increase
\* cost, in-use security group, on-demand, do-not-consolidate,
\* do-not-disrupt, do-not-evict, that matches the lower-cased message,
\* wherever the matches are in the text, and the empty value when none
\* matches or the message is empty.
FirstPatternWins ==
    Called("NormalizeEventMessage") => out[1] = RefFirstPattern(ToLower(args.message))

\* do-not-evict comes first in the text, ON-DEMAND first in the table
FirstPatternWinsWitness ==
    /\ Called("NormalizeEventMessage")
    /\ args.message = PatDoNotEvict \o <<"O", "N", "-", "D", "E", "M", "A", "N", "D">>
    /\ out[1] = "on-demand-protection"

RefQuoteStarts(message) ==
    {i \in 1..Len(message) :
        /\ IsSubAt(message, PodQuotePrefix, i)
        /\ i + 5 <= Len(message)
        /\ message[i + 5] # "\""
        /\ \E j \in (i + 6)..Len(message) : message[j] = "\""}

\* the identifier quoted at position i: the text up to the closing quote
RefQuoteAt(message, i) ==
    LET close == CHOOSE j \in (i + 6)..Len(message) :
                    /\ message[j] = "\""
                    /\ \A k \in (i + 6)..(j - 1) : message[k] # "\""
    IN SubSeq(message, i + 5, close - 1)

\* the identifiers message quotes
RefQuoted(message) == {RefQuoteAt(message, i) : i \in RefQuoteStarts(message)}

\* the first identifier message quotes, as a set: empty when it quotes none
RefFirstQuoted(message) ==
    {RefQuoteAt(message, i) : i \in {s \in RefQuoteStarts(message) :
                                        \A r \in RefQuoteStarts(message) : s <= r}}

\* events without its i-th element
WithoutEvent(events, i) == AppendKept(events, (1..Len(events)) \ {i}, 1)

\* the blockers DetectBlockers yields for the arguments with events replaced
BlockersFor(events) ==
    blockerSet(args.pods, events, args.cpuUtil, args.memUtil, args.existingPodNames)

\* C17 as stated: an event whose message quotes a pod identifier that is
\* not in existingPodNames never contributes: the result is the one without
\* the event.
StaleQuoteNeverContributes ==
    Called("DetectBlockers")
    => \A i \in 1..Len(args.events) :
          (RefQuoted(args.events[i].Message) \ args.existingPodNames # {})
          => Range(out[1]) = BlockersFor(WithoutEvent(args.events, i))

\* C17 as amended: an event does not contribute when the first pod
\* identifier its message quotes is not in existingPodNames; identifiers
\* quoted further on in the message are not looked at.
FirstStaleQuoteNeverContributes ==
    Called("DetectBlockers")
    => \A i \in 1..Len(args.events) :
          (RefFirstQuoted(args.events[i].Message) \ args.existingPodNames # {})
          => Range(out[1]) = BlockersFor(WithoutEvent(args.events, i))

\* the only event says that the vanished pod d/gone is non-replicated
FirstStaleQuoteNeverContributesWitness ==
    /\ Called("DetectBlockers")
    /\ Len(args.events) = 1
    /\ args.events[1].Message = MsgStaleNonReplicated
    /\ args.existingPodNames = {PodDA}
    /\ args.pods = << >> /\ args.cpuUtil = 79 /\ args.memUtil = 79
    /\ out[1] = << >>

\* the blocker of the first of the three annotations of p that is "true"
RefReason(p) ==
    IF IsTrue(p, "karpenter.sh/do-not-evict") THEN "do-not-evict"
    ELSE IF IsTrue(p, "karpenter.sh/do-not-disrupt") THEN "do-not-disrupt"
    ELSE IF IsTrue(p, "karpenter.sh/do-not-consolidate") THEN "do-not-consolidate"
    ELSE ""

\* the pods of the cluster that are assigned to a requested node and carry
\* a blocking annotation, as positions of the pod list
RefBlockingPods ==
    {i \in 1..Len(apiPods) :
        /\ apiPods[i].NodeName # ""
        /\ apiPods[i].NodeName \in Range(argNames)
        /\ RefReason(apiPods[i]) # ""}

RefPodBlocker(p) ==
    [NodeName |-> p.NodeName, Namespace |-> p.Namespace, PodName |-> p.Name,
     Reason |-> RefReason(p)]

\* C18: when the pod fetch succeeds CollectPodBlockers returns no error and
\* exactly one PodBlocker, with the node, the namespace, the name and the
\* first matching annotation's blocker, for each pod that is assigned to a
\* requested node and has a blocking annotation, and nothing else, however
\* often a node name is repeated and whether or not a requested node has
\* pods.
OnePodBlockerPerBlockingPod ==
    (op = "CollectPodBlockers" /\ Returned /\ podErr = NoErr)
    => /\ retErr = NoErr
       /\ Len(ret) = Cardinality(RefBlockingPods)
       /\ \A i \in RefBlockingPods :
             Cardinality({j \in 1..Len(ret) : ret[j] = RefPodBlocker(apiPods[i])}) = 1

\* n2 is requested twice; its pod k/c has two blocking annotations
OnePodBlockerPerBlockingPodWitness ==
    /\ op = "CollectPodBlockers" /\ Returned /\ retErr = NoErr
    /\ argNames = <<"n2", "n2">>
    /\ ret = << [NodeName |-> "n2", Namespace |-> <<"k">>, PodName |-> <<"c">>,
                 Reason |-> "do-not-disrupt"] >>

\* C19: when run is invoked with --pods and no node names it returns the
\* validation error at once: no client has been created and no discovery,
\* node, pod or event request has been issued, and no pass is started.
PodsModeNeedsNodeNames ==
    (fn = "run" /\ args.opts.pods /\ Len(args.args) = 0)
    => /\ calls = [clients |-> 0, discovery |-> 0, nodes |-> 0, pods |-> 0, events |-> 0]
       /\ op = ""
       /\ pc \in {"run", "exit"}
       /\ pc = "exit" => out = << <<"--pods flag requires at least one node name">> >>

\* run has returned the validation error on a cluster that has nodes
PodsModeNeedsNodeNamesWitness ==
    /\ fn = "run" /\ args.opts.pods /\ args.args = << >>
    /\ Len(apiNodes) > 0
    /\ pc = "exit"
    /\ out = << <<"--pods flag requires at least one node name">> >>

\* C20: GetPoolName returns the value of karpenter.sh/nodepool with
\* v1beta1 whenever that label is present, also next to the legacy label;
\* the value of karpenter.sh/provisioner-name with v1alpha5 only when the
\* newer label is absent; and the empty name with unknown when neither is
\* present or the node or its labels are nil.
NewerPoolLabelWins ==
    Called("GetPoolName")
    => out[1] =
          IF args.node = << >> THEN <<"", "unknown">>
          ELSE IF "karpenter.sh/nodepool" \in DOMAIN args.node[1].Labels
               THEN <<args.node[1].Labels["karpenter.sh/nodepool"], "v1beta1">>
          ELSE IF "karpenter.sh/provisioner-name" \in DOMAIN args.node[1].Labels
               THEN <<args.node[1].Labels["karpenter.sh/provisioner-name"], "v1alpha5">>
          ELSE <<"", "unknown">>

\* a node that carries both labels
NewerPoolLabelWinsWitness ==
    /\ Called("GetPoolName")
    /\ args.node # << >>
    /\ args.node[1].Labels =
          ("karpenter.sh/nodepool" :> "np") @@ ("karpenter.sh/provisioner-name" :> "prov")
    /\ out[1] = <<"np", "v1beta1">>

\* the step changes slot i of results
SlotWritten(i) == results'[i] # results[i]

\* C21: in the parallel phase a slot of results is written only by the
\* worker of its own index, in the step in which that worker finishes, and
\* only while it still holds the zero value; that step writes no other
\* slot; and no step of the phase changes the pod grouping, the event
\* grouping or the node list.
WorkersWriteOwnSlotOnly ==
    [][(pc \in {"spawn", "wait_pool"})
       => /\ \A i \in DOMAIN results :
                SlotWritten(i)
                => /\ wpc[i] = "work" /\ wpc'[i] = "done"
                   /\ results[i] = ZeroNodeInfo
                   /\ \A j \in DOMAIN results \ {i} : ~SlotWritten(j)
          /\ DOMAIN results' = DOMAIN results
          /\ podsByNode' = podsByNode
          /\ eventsByNode' = eventsByNode
          /\ nodes' = nodes]_vars

\* the first worker has written its slot while the second still computes
WorkersWriteOwnSlotOnlyWitness ==
    /\ {1, 2} \subseteq DOMAIN wpc
    /\ wpc[1] = "done" /\ wpc[2] = "work"
    /\ results[1].Node = 1 /\ results[2] = ZeroNodeInfo
    /\ DOMAIN podsByNode # {}

\* every node has a finished worker, a filled slot, and no token is held
PoolDrained ==
    /\ \A i \in DOMAIN nodes : wpc[i] = "done" /\ results[i].Node = i
    /\ Len(results) = Len(nodes)
    /\ sem = 0
    /\ poolWg = 0

\* C22: for any number of nodes, more than maxWorkers included,
\* collectParallel eventually returns, and whenever it has returned every
\* worker has acquired a token, finished and released it: every slot is
\* filled and no token is held.
PoolTerminatesDrained ==
    /\ <>(pc = "done")
    /\ [](pc = "done" => PoolDrained)

\* collectParallel has returned for more nodes than there are tokens
PoolTerminatesDrainedWitness ==
    /\ pc = "done"
    /\ Len(nodes) > maxWorkers
    /\ PoolDrained
    /\ Len(ret) = Len(nodes)

\* the name part of a namespace/name identifier
RefBareName(id) ==
    LET slash == CHOOSE i \in 1..Len(id) : id[i] = "/"
    IN SubSeq(id, slash + 1, Len(id))

\* the ways a message can quote one of the pods named in existing
RefQuotations(existing) == existing \cup {RefBareName(id) : id \in existing}

\* the event is consolidation-related
RefRelated(event) ==
    \/ event.Reason \in {"CannotConsolidate", "DeprovisioningBlocked", "DisruptionBlocked"}
    \/ \E sub \in {SubConsolidat, SubDeprovision, SubDisrupt} :
          Contains(ToLower(event.Message), sub)

\* C23: a consolidation-related event whose message quotes a pod that is on
\* the node, as namespace/name or by its bare name, contributes the blocker
\* its message classifies to.
QuotedLivePodContributes ==
    Called("DetectBlockers")
    => \A i \in 1..Len(args.events) :
          LET event == args.events[i]
              blocker == RefFirstPattern(ToLower(event.Message))
          IN (/\ RefRelated(event)
              /\ RefFirstQuoted(event.Message) # {}
              /\ RefFirstQuoted(event.Message) \subseteq RefQuotations(args.existingPodNames)
              /\ blocker # NoBlocker)
             => blocker \in Range(out[1])

\* Quantity.Value() of a whole number of bytes
RefValue(q) == q \div 1000

\* C24: for a memory amount whose byte count times 100 fits the signed
\* word, calculatePercentage forms the ratio from byte values, so the
\* product does not overflow and the result is the floor of
\* 100 * used bytes / total bytes.
MemoryProductFitsWord ==
    (Called("calculatePercentage") /\ ~IsZero(args.total))
    => (RefValue(args.used) * 100 <= MaxInt64
        => out[1] = (RefValue(args.used) * 100) \div RefValue(args.total))

\* C25: DetectBlockers classifies an event only if its reason is one of
\* CannotConsolidate, DeprovisioningBlocked and DisruptionBlocked or its
\* lower-cased message contains consolidat, deprovision or disrupt: an
\* event failing the test leaves the result as it is without the event,
\* whatever pattern its message matches, and an event passing it that
\* quotes no pod adds the blocker its message classifies to.
OnlyRelatedEventsClassified ==
    Called("DetectBlockers")
    => \A i \in 1..Len(args.events) :
          LET event == args.events[i]
              blocker == RefFirstPattern(ToLower(event.Message))
          IN IF RefRelated(event)
             THEN (RefFirstQuoted(event.Message) = {} /\ blocker # NoBlocker)
                  => blocker \in Range(out[1])
             ELSE Range(out[1]) = BlockersFor(WithoutEvent(args.events, i))

\* the only event has the reason Started and the message on-demand, which
\* matches a blocker pattern, and nothing is returned
OnlyRelatedEventsClassifiedWitness ==
    /\ Called("DetectBlockers")
    /\ args.events = <<[Reason |-> "Started", Message |-> PatOnDemand]>>
    /\ out[1] = << >>

\* the ten values of BlockerType
RefBlockerTypes ==
    {"high-utilization", "do-not-evict", "do-not-disrupt", "do-not-consolidate",
     "pdb-violation", "non-replicated", "would-increase-cost", "in-use-security-group",
     "on-demand-protection", "local-storage"}

\* C27: the list DetectBlockers returns holds no value twice, however many
\* pods and events yield the same blocker, and each of its elements is one
\* of the ten BlockerType values, never the empty one.
BlockersDistinctAndEnumerated ==
    Called("DetectBlockers")
    => /\ \A i, j \in 1..Len(out[1]) : out[1][i] = out[1][j] => i = j
       /\ Range(out[1]) \subseteq RefBlockerTypes

\* the two events are the same PDB event, utilization is high, and each of
\* the two blockers is returned once
BlockersDistinctAndEnumeratedWitness ==
    /\ Called("DetectBlockers")
    /\ Len(args.events) = 2
    /\ args.events[1] = args.events[2]
    /\ args.events[1].Message = MsgPdb
    /\ args.cpuUtil = 80
    /\ Len(out[1]) = 2
    /\ Range(out[1]) = {BlockerPDBViolation, BlockerHighUtilization}

EachListAtMostOnce ==
    /\ calls.nodes <= 1 /\ calls.pods <= 1 /\ calls.events <= 1
    /\ (op = "CollectPodBlockers" /\ Returned)
       => (calls.pods = 1 /\ calls.nodes = 0 /\ calls.events = 0)
    /\ (op = "Collect" /\ Returned) => calls.nodes = 1

\* CollectPodBlockers has returned the blockers of two nodes after one list
EachListAtMostOnceWitness ==
    /\ op = "CollectPodBlockers"
    /\ Returned
    /\ retErr = NoErr
    /\ Cardinality(Range(argNames)) = 2
    /\ calls.pods = 1

\* C29: Collect never returns while one of its two fetch tasks is running:
\* when it has returned, each task has either not been started or has
\* finished, also when the pod fetch failed before the event fetch was
\* through.
NoFetchOutlivesCollect ==
    (op = "Collect" /\ Returned)
    => /\ podPc \in {"idle", "done"}
       /\ evPc \in {"idle", "done"}
       /\ podPc = evPc
       /\ fetchWg = 0

\* Collect has returned the pod error after the event fetch had delivered
\* its events
NoFetchOutlivesCollectWitness ==
    /\ op = "Collect"
    /\ Returned
    /\ retErr = ErrPodList
    /\ evPc = "done"
    /\ eventErr = NoErr
    /\ DOMAIN eventsByNode # {}

\* the pods of the cluster assigned to the node called name
RefOwnPods(name) == SelectSeq(apiPods, LAMBDA pod : pod.NodeName = name)

\* the events of the cluster whose involved object is the node called name,
\* none if the event fetch failed
RefOwnEvents(name) ==
    IF eventErr # NoErr THEN << >>
    ELSE SelectSeq(apiEvents, LAMBDA event : /\ event.InvolvedObject.Kind = "Node"
                                             /\ event.InvolvedObject.Name = name)

\* C26: the NodeInfo Collect returns for a node is the one computed from the
\* node, the pods assigned to it and the events whose involved object it is,
\* whatever other pods and events the cluster has: pods of other nodes,
\* pods without a node and events of other objects contribute nothing to
\* it. Likewise every PodBlocker returned is of a pod assigned to a
\* requested node.
OnlyOwnPodsAndEventsCount ==
    /\ (op = "Collect" /\ Returned /\ retErr = NoErr)
       => \A i \in 1..Len(ret) :
             ret[i] \in collectNodeInfo(i, nodes[i], RefOwnPods(nodes[i].Name),
                                        RefOwnEvents(nodes[i].Name))
    /\ (op = "CollectPodBlockers" /\ Returned /\ retErr = NoErr)
       => \A j \in 1..Len(ret) :
             \E i \in 1..Len(apiPods) :
                /\ apiPods[i].NodeName \in Range(argNames)
                /\ ret[j] = RefPodBlocker(apiPods[i])

\* Collect has returned both nodes of the cluster that has the pod without
\* a node, the pods of both nodes and the events of nodes and of a pod
OnlyOwnPodsAndEventsCountWitness ==
    /\ op = "Collect"
    /\ Returned
    /\ retErr = NoErr
    /\ eventErr = NoErr
    /\ Len(ret) = 2
    /\ apiPods = ClusterPods
    /\ apiEvents = ClusterEvents
    /\ ret[1].Blockers # << >>
    /\ ret[2].Blockers # << >>

====
